---- MODULE Spec2Model ----
(***************************************************************************)
(* A model of the coverage module of ol3 (GaborFarkas/ol3): the coverage   *)
(* styles and their checksums, the coverage source, the ArcGrid / GeoTIFF  *)
(* loaders and the canvas / WebGL coverage layer renderers.                *)
(*                                                                         *)
(* Conventions.  A JavaScript value that is "a number or undefined" is a   *)
(* set: {} is undefined and {n} is the number n.  A JavaScript string is   *)
(* the sequence of its characters, so that string concatenation is \o and  *)
(* two strings are equal exactly when the sequences are; <<>> stands for   *)
(* an unset (undefined) string field.                                      *)
(***************************************************************************)
EXTENDS Integers, Sequences, FiniteSets, TLC

VARIABLES
  \* --- two style objects and the last value getChecksum() returned for each
  styleA, styleB, resA, resB,
  \* --- a coverage source and the outcome of the last call made on it
  source, sourceOut,
  \* --- a coverage layer, its renderer, and the last prepareFrame call
  layer, renderer, lastFrame,
  \* --- a WebGL polygon replay and the outcome of the last call made on it
  replay, replayOut,
  \* --- a band
  rasterBand,
  \* --- the arguments of a style's apply() and what it returned
  applyIn, applyOut

styleVars == <<styleA, styleB, resA, resB>>
sourceVars == <<source, sourceOut>>
renderVars == <<layer, renderer, lastFrame>>
replayVars == <<replay, replayOut>>
applyVars == <<applyIn, applyOut>>
otherVars == <<replayVars, rasterBand, applyVars>>

vars == <<styleVars, sourceVars, renderVars, otherVars>>

(***************************************************************************)
(* JavaScript values                                                       *)
(***************************************************************************)
Undefined == {}
IsDefined(o) == o # {}
Val(o) == CHOOSE x \in o : TRUE
\* An unset string field (checksum_ = undefined).
UndefinedStr == <<>>
\* The outcome of a call that raised a TypeError instead of returning.
Throw == <<"TypeError">>
\* No call made yet (or the object was mutated since the last call).
NoResult == <<"none">>
IsString(r) == r # NoResult /\ r # Throw /\ r # UndefinedStr

\* !x for a number-or-undefined x: undefined and 0 are falsy.
Falsy(o) == o = Undefined \/ o = {0}

DigitChars == <<"0", "1", "2", "3", "4", "5", "6", "7", "8", "9">>

RECURSIVE Digits(_)
Digits(n) ==
  IF n < 10 THEN <<DigitChars[n + 1]>>
  ELSE Digits(n \div 10) \o <<DigitChars[(n % 10) + 1]>>

\* Number.prototype.toString() of an integer.
NumberToString(n) == IF n < 0 THEN <<"-">> \o Digits(-n) ELSE Digits(n)

\* ol/color.asString of a colour array [r, g, b, a]: 'rgba(r,g,b,a)'.
AsString(color) ==
  <<"r", "g", "b", "a", "(">> \o NumberToString(color[1]) \o <<",">>
    \o NumberToString(color[2]) \o <<",">> \o NumberToString(color[3])
    \o <<",">> \o NumberToString(color[4]) \o <<")">>

(***************************************************************************)
(* Bounds and input sets                                                   *)
(***************************************************************************)
\* Longest breakpoint list of a Pseudocolor style.
MaxBreakpoints == 2

NumValues == {-1, 0, 10}
OptNumValues == {Undefined} \cup {{n} : n \in NumValues}
PseudocolorNums == {0, 10}
BandIndices == {0, 1, 2}
OptBandIndices == {Undefined} \cup {{b} : b \in BandIndices}
Black == <<0, 0, 0, 1>>
White == <<255, 255, 255, 1>>
Red == <<255, 0, 0, 1>>
StartColors == {Black, Red}
EndColors == {White, Red}
INTERPOLATE == "interpolate"
CATEGORIZED == "categorized"
PseudocolorModes == {INTERPOLATE, CATEGORIZED}
BreakpointValues == {0, 5}
BreakpointColors == {Red, White}

(***************************************************************************)
(* ol/style/Monochrome                                                     *)
(***************************************************************************)
Monochrome(options) ==
  [kind |-> "m",
   min_ |-> options.min,
   max_ |-> options.max,
   band_ |-> IF options.band # Undefined THEN options.band ELSE {0},
   checksum_ |-> UndefinedStr]

MonochromeSetMin(s, min) == [s EXCEPT !.min_ = min, !.checksum_ = UndefinedStr]
MonochromeSetMax(s, max) == [s EXCEPT !.max_ = max, !.checksum_ = UndefinedStr]
MonochromeSetBandIndex(s, band) ==
  [s EXCEPT !.band_ = band, !.checksum_ = UndefinedStr]

\* A plausible slip: the maximum left out of the checksum.
Mutant_MonochromeChecksumString(s) ==
  <<"m">> \o
    (IF s.band_ # Undefined
       THEN NumberToString(Val(s.band_)) \o <<",">> \o
            (IF s.min_ # Undefined THEN NumberToString(Val(s.min_)) ELSE <<"-">>)
       ELSE <<"-">>)

\* The string getChecksum builds when nothing is cached.
MonochromeChecksumString(s) ==
  <<"m">> \o
    (IF s.band_ # Undefined
       THEN NumberToString(Val(s.band_)) \o <<",">> \o
            (IF s.min_ # Undefined THEN NumberToString(Val(s.min_)) ELSE <<"-">>)
            \o <<",">> \o
            (IF s.max_ # Undefined THEN NumberToString(Val(s.max_)) ELSE <<"-">>)
       ELSE <<"-">>)

\* getChecksum(): the value returned and the object afterwards.
MonochromeGetChecksum(s) ==
  IF s.checksum_ = UndefinedStr
    THEN LET c == MonochromeChecksumString(s)
         IN [ret |-> c, obj |-> [s EXCEPT !.checksum_ = c]]
    ELSE [ret |-> s.checksum_, obj |-> s]

(***************************************************************************)
(* ol/style/Pseudocolor                                                    *)
(***************************************************************************)
\* addBreakpoint stores [value, asArray(color)].
PseudocolorAddBreakpoint(s, breakpoint) ==
  [s EXCEPT !.breakpoints_ = Append(@, breakpoint), !.checksum_ = UndefinedStr]

RECURSIVE AddBreakpoints(_, _)
AddBreakpoints(s, bps) ==
  IF bps = <<>> THEN s
  ELSE AddBreakpoints(PseudocolorAddBreakpoint(s, Head(bps)), Tail(bps))

Pseudocolor(options) ==
  LET s0 == [kind |-> "p",
             min_ |-> options.min,
             max_ |-> options.max,
             band_ |-> IF options.band # Undefined THEN options.band ELSE {0},
             startColor_ |-> options.startColor,
             endColor_ |-> options.endColor,
             mode_ |-> options.mode,
             breakpoints_ |-> <<>>,
             checksum_ |-> UndefinedStr]
  IN [AddBreakpoints(s0, options.breakpoints) EXCEPT !.checksum_ = UndefinedStr]

\* Collection.removeAt(i) (0-based i): a splice, which ignores an index past the end.
RemoveAt(seq, i) ==
  IF i + 1 \in 1..Len(seq)
    THEN SubSeq(seq, 1, i) \o SubSeq(seq, i + 2, Len(seq))
    ELSE seq

\* removeBreakpoint with a numeric argument: "else if (breakpoint)" skips 0.
PseudocolorRemoveBreakpointAt(s, index) ==
  IF index # 0
    THEN [s EXCEPT !.breakpoints_ = RemoveAt(@, index), !.checksum_ = UndefinedStr]
    ELSE s

\* removeBreakpoint with the breakpoint element itself (the k-th of the list).
PseudocolorRemoveBreakpointElem(s, k) ==
  [s EXCEPT !.breakpoints_ = RemoveAt(@, k - 1), !.checksum_ = UndefinedStr]

PseudocolorClearBreakpoints(s) ==
  [s EXCEPT !.breakpoints_ = <<>>, !.checksum_ = UndefinedStr]

PseudocolorSetMin(s, min) == [s EXCEPT !.min_ = min, !.checksum_ = UndefinedStr]
PseudocolorSetMax(s, max) == [s EXCEPT !.max_ = max, !.checksum_ = UndefinedStr]
PseudocolorSetBandIndex(s, band) ==
  [s EXCEPT !.band_ = band, !.checksum_ = UndefinedStr]
PseudocolorSetStartColor(s, color) ==
  [s EXCEPT !.startColor_ = color, !.checksum_ = UndefinedStr]
PseudocolorSetEndColor(s, color) ==
  [s EXCEPT !.endColor_ = color, !.checksum_ = UndefinedStr]
PseudocolorSetMode(s, mode) ==
  [s EXCEPT !.mode_ = mode, !.checksum_ = UndefinedStr]

\* The loop over the breakpoints: value.toString() + ',' + asString(color) + ','.
RECURSIVE BreakpointsString(_)
BreakpointsString(bps) ==
  IF bps = <<>> THEN <<>>
  ELSE NumberToString(Head(bps)[1]) \o <<",">> \o AsString(Head(bps)[2])
         \o <<",">> \o BreakpointsString(Tail(bps))

\* String.prototype.slice(0, -1).
SliceLast(str) == SubSeq(str, 1, Len(str) - 1)

\* The breakpoint part appended after the first statement.
PseudocolorBreakpointsPart(s) ==
  IF Len(s.breakpoints_) > 0
    THEN SliceLast(<<"(">> \o BreakpointsString(s.breakpoints_)) \o <<")">>
    ELSE <<"-">>

(***************************************************************************)
(* getChecksum().  The statement                                           *)
(*   this.checksum_ += band.toString() + ',' + mode + ',' +                *)
(*     this.getMin() !== undefined ? this.getMin().toString() : '-' + ...  *)
(* parses as  this.checksum_ += ((band + ',' + mode + ',' + min)           *)
(*                                 !== undefined) ? min.toString() : (...) *)
(* + binds tighter than !==, which binds tighter than ?: .  The condition  *)
(* compares a string with undefined, so it is always true and the value    *)
(* appended is this.getMin().toString(), which raises a TypeError when min *)
(* is undefined; this.checksum_ was already set to 'p' by then.            *)
(***************************************************************************)
PseudocolorGetChecksum(s) ==
  IF s.checksum_ # UndefinedStr THEN [ret |-> s.checksum_, obj |-> s]
  ELSE IF s.band_ = Undefined
    THEN [ret |-> <<"p", "-">>, obj |-> [s EXCEPT !.checksum_ = <<"p", "-">>]]
  ELSE IF s.min_ = Undefined
    THEN [ret |-> Throw, obj |-> [s EXCEPT !.checksum_ = <<"p">>]]
  ELSE LET c == <<"p">> \o NumberToString(Val(s.min_))
                  \o PseudocolorBreakpointsPart(s)
       IN [ret |-> c, obj |-> [s EXCEPT !.checksum_ = c]]

(***************************************************************************)
(* ol/style/RGB                                                            *)
(***************************************************************************)
DefaultStyle(index) == Monochrome([min |-> Undefined, max |-> Undefined,
                                   band |-> {index}])

RGB(options) ==
  [kind |-> "r", red_ |-> options.red, green_ |-> options.green,
   blue_ |-> options.blue]

RGBSetRed(s, red) == [s EXCEPT !.red_ = red]
RGBSetGreen(s, green) == [s EXCEPT !.green_ = green]
RGBSetBlue(s, blue) == [s EXCEPT !.blue_ = blue]

RGBGetBandIndex(s) == <<s.red_.band_, s.green_.band_, s.blue_.band_>>

RGBGetChecksum(s) ==
  LET r == MonochromeGetChecksum(s.red_)
      g == MonochromeGetChecksum(s.green_)
      b == MonochromeGetChecksum(s.blue_)
  IN [ret |-> <<"r">> \o r.ret \o <<"g">> \o g.ret \o <<"b">> \o b.ret,
      obj |-> [s EXCEPT !.red_ = r.obj, !.green_ = g.obj, !.blue_ = b.obj]]

(***************************************************************************)
(* The style interface (getChecksum, getBandIndex) by kind                 *)
(***************************************************************************)
GetChecksum(s) ==
  CASE s.kind = "m" -> MonochromeGetChecksum(s)
    [] s.kind = "p" -> PseudocolorGetChecksum(s)
    [] s.kind = "r" -> RGBGetChecksum(s)

\* A style constructed anew from the current parameters: nothing cached.
Fresh(s) ==
  CASE s.kind = "m" -> [s EXCEPT !.checksum_ = UndefinedStr]
    [] s.kind = "p" -> [s EXCEPT !.checksum_ = UndefinedStr]
    [] s.kind = "r" -> [s EXCEPT !.red_.checksum_ = UndefinedStr,
                                 !.green_.checksum_ = UndefinedStr,
                                 !.blue_.checksum_ = UndefinedStr]

(***************************************************************************)
(* Values of the variables a specification does not use                    *)
(***************************************************************************)
NoStyle == [kind |-> "none"]
NoSource == [kind |-> "none"]
NoOutcome == [op |-> "none"]
NoLayer == [kind |-> "none"]
NoRenderer == [cls |-> "none"]
NoFrame == [called |-> FALSE]
NoRender ==
  /\ layer = NoLayer
  /\ renderer = NoRenderer
  /\ lastFrame = NoFrame

NoReplay == [kind |-> "none"]
NoBand == [kind |-> "none"]
NoApply == [kind |-> "none"]
NoOther ==
  /\ replay = NoReplay
  /\ replayOut = NoOutcome
  /\ rasterBand = NoBand
  /\ applyIn = NoApply
  /\ applyOut = NoApply

(***************************************************************************)
(* Specification SpecStyle: two style objects of one class.  styleA is     *)
(* mutated through its setters; getChecksum is called on either.           *)
(***************************************************************************)
MonochromeStyles ==
  {Monochrome([min |-> mn, max |-> mx, band |-> Undefined]) : 
     mn \in OptNumValues, mx \in OptNumValues}

\* Every Monochrome state the constructor and setBandIndex reach.
ReachableMonochromes ==
  {MonochromeSetBandIndex(m, b) : m \in MonochromeStyles, b \in OptBandIndices}

PseudocolorStyles ==
  {Pseudocolor([min |-> mn, max |-> mx, band |-> Undefined,
                startColor |-> Black, endColor |-> White,
                mode |-> INTERPOLATE, breakpoints |-> <<>>]) :
     mn \in {Undefined, {0}}, mx \in {Undefined, {10}}}

ChannelNames == {"red_", "green_", "blue_"}
ChannelNums == {0}
ChannelBands == {Undefined, {0}}
PseudocolorBands == {Undefined, {0}, {1}}
\* Channel styles handed to the RGB constructor and to setRed/setGreen/setBlue.
ChannelStyles ==
  {MonochromeSetBandIndex(DefaultStyle(0), b) : b \in {Undefined, {0}}}

RGBStyles ==
  {RGB([red |-> r, green |-> g, blue |-> DefaultStyle(2)]) :
     r \in ChannelStyles, g \in ChannelStyles}

InitStyle ==
  /\ \E k \in {"m", "p", "r"} :
       /\ styleA \in (CASE k = "m" -> ReachableMonochromes
                        [] k = "p" -> PseudocolorStyles
                        [] k = "r" -> RGBStyles)
       /\ styleB \in (CASE k = "m" -> ReachableMonochromes
                        [] k = "p" -> PseudocolorStyles
                        [] k = "r" -> RGBStyles)
  /\ resA = NoResult
  /\ resB = NoResult
  /\ source = NoSource
  /\ sourceOut = NoOutcome
  /\ NoRender
  /\ NoOther

SetMinOf(s, v) ==
  IF s.kind = "m" THEN MonochromeSetMin(s, v) ELSE PseudocolorSetMin(s, v)
SetMaxOf(s, v) ==
  IF s.kind = "m" THEN MonochromeSetMax(s, v) ELSE PseudocolorSetMax(s, v)
SetBandIndexOf(s, b) ==
  IF s.kind = "m" THEN MonochromeSetBandIndex(s, b)
  ELSE PseudocolorSetBandIndex(s, b)

\* Every setter call on styleA forgets the recorded getChecksum result.
MutateA(s) == /\ styleA' = s
              /\ resA' = NoResult
              /\ UNCHANGED <<styleB, resB, sourceVars, renderVars, otherVars>>

StyleSetMin ==
  /\ styleA.kind \in {"m", "p"}
  /\ \E v \in (IF styleA.kind = "m" THEN NumValues ELSE PseudocolorNums) :
       MutateA(SetMinOf(styleA, {v}))

StyleSetMax ==
  /\ styleA.kind \in {"m", "p"}
  /\ \E v \in (IF styleA.kind = "m" THEN NumValues ELSE PseudocolorNums) :
       MutateA(SetMaxOf(styleA, {v}))

StyleSetBandIndex ==
  /\ styleA.kind \in {"m", "p"}
  /\ \E b \in (IF styleA.kind = "m" THEN OptBandIndices ELSE PseudocolorBands) :
       MutateA(SetBandIndexOf(styleA, b))

StyleSetStartColor ==
  /\ styleA.kind = "p"
  /\ \E c \in StartColors : MutateA(PseudocolorSetStartColor(styleA, c))

StyleSetEndColor ==
  /\ styleA.kind = "p"
  /\ \E c \in EndColors : MutateA(PseudocolorSetEndColor(styleA, c))

\* setMode asserts that the mode is one of PseudocolorMode's values.
StyleSetMode ==
  /\ styleA.kind = "p"
  /\ \E m \in PseudocolorModes : MutateA(PseudocolorSetMode(styleA, m))

StyleAddBreakpoint ==
  /\ styleA.kind = "p"
  /\ Len(styleA.breakpoints_) < MaxBreakpoints
  /\ \E v \in BreakpointValues, c \in BreakpointColors :
       MutateA(PseudocolorAddBreakpoint(styleA, <<v, c>>))

StyleRemoveBreakpointAt ==
  /\ styleA.kind = "p"
  /\ \E i \in 0..MaxBreakpoints : MutateA(PseudocolorRemoveBreakpointAt(styleA, i))

StyleRemoveBreakpointElem ==
  /\ styleA.kind = "p"
  /\ \E k \in 1..Len(styleA.breakpoints_) :
       MutateA(PseudocolorRemoveBreakpointElem(styleA, k))

StyleClearBreakpoints ==
  /\ styleA.kind = "p"
  /\ MutateA(PseudocolorClearBreakpoints(styleA))

\* setRed / setGreen / setBlue.
StyleSetChannel ==
  /\ styleA.kind = "r"
  /\ \E ch \in ChannelNames, m \in ChannelStyles :
       MutateA([styleA EXCEPT ![ch] = m])

\* A setter of one of the channel styles of an RGB style.
StyleChannelSetMin ==
  /\ styleA.kind = "r"
  /\ \E ch \in ChannelNames, v \in ChannelNums :
       MutateA([styleA EXCEPT ![ch] = MonochromeSetMin(@, {v})])

StyleChannelSetMax ==
  /\ styleA.kind = "r"
  /\ \E ch \in ChannelNames, v \in ChannelNums :
       MutateA([styleA EXCEPT ![ch] = MonochromeSetMax(@, {v})])

StyleChannelSetBandIndex ==
  /\ styleA.kind = "r"
  /\ \E ch \in ChannelNames, b \in ChannelBands :
       MutateA([styleA EXCEPT ![ch] = MonochromeSetBandIndex(@, b)])

GetChecksumA ==
  LET r == GetChecksum(styleA)
  IN /\ styleA' = r.obj
     /\ resA' = r.ret
     /\ UNCHANGED <<styleB, resB, sourceVars, renderVars, otherVars>>

GetChecksumB ==
  LET r == GetChecksum(styleB)
  IN /\ styleB' = r.obj
     /\ resB' = r.ret
     /\ UNCHANGED <<styleA, resA, sourceVars, renderVars, otherVars>>

NextStyle ==
  \/ StyleSetMin
  \/ StyleSetMax
  \/ StyleSetBandIndex
  \/ StyleSetStartColor
  \/ StyleSetEndColor
  \/ StyleSetMode
  \/ StyleAddBreakpoint
  \/ StyleRemoveBreakpointAt
  \/ StyleRemoveBreakpointElem
  \/ StyleClearBreakpoints
  \/ StyleSetChannel
  \/ StyleChannelSetMin
  \/ StyleChannelSetMax
  \/ StyleChannelSetBandIndex
  \/ GetChecksumA
  \/ GetChecksumB

SpecStyle == InitStyle /\ [][NextStyle]_vars

(***************************************************************************)
(* Claims about the style checksums (SpecStyle)                            *)
(***************************************************************************)
\* The number of parameters in which two Pseudocolor styles differ; breakpoint
\* lists of different lengths count as more than one change.
PseudocolorDiffCount(a, b) ==
  Cardinality({f \in {"min_", "max_", "band_", "mode_", "startColor_", "endColor_"} :
                 a[f] # b[f]})
  + (IF Len(a.breakpoints_) = Len(b.breakpoints_)
       THEN Cardinality({i \in 1..Len(a.breakpoints_) :
                           a.breakpoints_[i] # b.breakpoints_[i]})
       ELSE 2)

\* C3 (as claimed): two Pseudocolor styles with min and max set that differ in
\* exactly one of min, max, band index, mode, start colour, end colour or one
\* breakpoint return different strings from getChecksum.
C3_SingleChangeChangesChecksum ==
  (/\ styleA.kind = "p"
   /\ IsString(resA) /\ IsString(resB)
   /\ styleA.min_ # Undefined /\ styleA.max_ # Undefined
   /\ styleB.min_ # Undefined /\ styleB.max_ # Undefined
   /\ PseudocolorDiffCount(styleA, styleB) = 1)
  => resA # resB

SameMonochromeParameters(a, b) ==
  a.band_ = b.band_ /\ a.min_ = b.min_ /\ a.max_ = b.max_

\* Same band index and, when that band index is defined, same min and max.
SameEffectiveMonochromeParameters(a, b) ==
  /\ a.band_ = b.band_
  /\ a.band_ # Undefined => (a.min_ = b.min_ /\ a.max_ = b.max_)

ChannelChecksumsEqual(a, b) ==
  \A ch \in ChannelNames :
    MonochromeGetChecksum(a[ch]).ret = MonochromeGetChecksum(b[ch]).ret

\* C4 (as claimed): two Monochrome styles return equal checksums exactly when
\* they have the same band index, min and max; two RGB styles return equal
\* checksums exactly when their channel styles have pairwise equal checksums.
C4_ChecksumEqualIffSameParameters ==
  (IsString(resA) /\ IsString(resB)) =>
    /\ styleA.kind = "m" => ((resA = resB) <=> SameMonochromeParameters(styleA, styleB))
    /\ styleA.kind = "r" => ((resA = resB) <=> ChannelChecksumsEqual(styleA, styleB))

\* C4 (amended): two Monochrome styles return equal checksums exactly when they
\* have the same band index and, if that band index is defined, the same min
\* and max (with an undefined band index the checksum is 'm-' whatever min and
\* max are); two RGB styles return equal checksums exactly when their channel
\* styles have pairwise equal checksums.
C4_ChecksumEqualIffSameEffectiveParameters ==
  (IsString(resA) /\ IsString(resB)) =>
    /\ styleA.kind = "m" =>
         ((resA = resB) <=> SameEffectiveMonochromeParameters(styleA, styleB))
    /\ styleA.kind = "r" => ((resA = resB) <=> ChannelChecksumsEqual(styleA, styleB))

\* Two Monochrome styles without a band index whose checksums were both taken
\* and are equal although their minima differ.
C4_Witness ==
  /\ styleA.kind = "m"
  /\ IsString(resA) /\ resA = resB
  /\ styleA.band_ = Undefined /\ styleB.band_ = Undefined
  /\ styleA.min_ # styleB.min_

\* C5 (as claimed): whatever setters and getChecksum calls came before,
\* getChecksum on the style returns the string a freshly constructed style with
\* the same parameters returns.
C5_CachedChecksumNeverStale ==
  GetChecksum(styleA).ret = GetChecksum(Fresh(styleA)).ret

(***************************************************************************)
(* ol/source/State                                                         *)
(***************************************************************************)
UNDEFINED == "undefined"
LOADING == "loading"
READY == "ready"
ERROR == "error"

(***************************************************************************)
(* Numbers and extents.  Extents are one-dimensional, <<min, max>>.        *)
(* Infinity and NaN are integers outside the range of every cell value and *)
(* coordinate used.                                                        *)
(***************************************************************************)
Infinity == 1000
NaN == 5000

MathMin(a, b) == IF a < b THEN a ELSE b
MathMax(a, b) == IF a > b THEN a ELSE b

\* A number used as a condition: 0 and NaN are falsy.
Truthy(n) == n # 0 /\ n # NaN

CreateEmpty == <<Infinity, -Infinity>>
Extend(e1, e2) == <<MathMin(e1[1], e2[1]), MathMax(e1[2], e2[2])>>
Intersects(e1, e2) == e1[1] <= e2[2] /\ e1[2] >= e2[1]
ContainsExtent(e1, e2) == e1[1] <= e2[1] /\ e2[2] <= e1[2]
Buffer(e, v) == <<e[1] - v, e[2] + v>>
GetWidth(e) == e[2] - e[1]

(***************************************************************************)
(* ol/coverage/Band.  null_ is a number or null: {} stands for null.       *)
(***************************************************************************)
Null == {}

RECURSIVE SumOf(_)
SumOf(seq) == IF seq = <<>> THEN 0 ELSE Head(seq) + SumOf(Tail(seq))

RECURSIVE MinOf(_, _)
MinOf(seq, acc) ==
  IF seq = <<>> THEN acc
  ELSE MinOf(Tail(seq), IF Head(seq) < acc THEN Head(seq) ELSE acc)

RECURSIVE MaxOf(_, _)
MaxOf(seq, acc) ==
  IF seq = <<>> THEN acc
  ELSE MaxOf(Tail(seq), IF Head(seq) > acc THEN Head(seq) ELSE acc)

\* Every cell, the null ones too.
Mutant_NonNullCells(b) == b.matrix_

\* The cells the loops of calculateStatistics take: matrix[i] !== nullValue.
NonNullCells(b) ==
  SelectSeq(b.matrix_, LAMBDA v : b.null_ = Null \/ v # Val(b.null_))

SquaredDeviations(cells, avg) ==
  [i \in 1..Len(cells) |-> (cells[i] - avg) * (cells[i] - avg)]

\* calculateStatistics() with a guard that gives an empty selection the
\* variance 0.
Mutant_CalculateStatistics(b) ==
  LET cells == NonNullCells(b)
      count == Len(cells)
      sum == SumOf(cells)
      avg == IF count = 0 THEN 0 ELSE sum \div count
      variance == IF count = 0 THEN 0
                  ELSE SumOf(SquaredDeviations(cells, avg)) \div count
  IN [b EXCEPT !.statistics_ =
        [min |-> MinOf(cells, Infinity), max |-> MaxOf(cells, -Infinity),
         sum |-> sum, count |-> count, variance |-> variance]]

\* calculateStatistics().  The cell values used make both divisions exact;
\* with no cell taken both are 0 / 0.
CalculateStatistics(b) ==
  LET cells == NonNullCells(b)
      count == Len(cells)
      sum == SumOf(cells)
      avg == IF count = 0 THEN NaN ELSE sum \div count
      variance == IF count = 0 THEN NaN
                  ELSE SumOf(SquaredDeviations(cells, avg)) \div count
  IN [b EXCEPT !.statistics_ =
        [min |-> MinOf(cells, Infinity), max |-> MaxOf(cells, -Infinity),
         sum |-> sum, count |-> count, variance |-> variance]]

Band(options) ==
  CalculateStatistics(
    [null_ |-> options.nodata,
     extent_ |-> options.extent,
     matrix_ |-> options.matrix,
     stride_ |-> options.stride,
     resolution_ |-> options.resolution,
     statistics_ |-> [min |-> Undefined, max |-> Undefined, sum |-> Undefined,
                      count |-> Undefined, variance |-> Undefined]])

\* setNullValue without the recalculation.
Mutant_BandSetNullValue(b, nullValue) == [b EXCEPT !.null_ = nullValue]

\* setNullValue(nullValue) up to its changed() call, which BandChanged models.
BandSetNullValue(b, nullValue) ==
  LET b1 == [b EXCEPT !.null_ = nullValue]
  IN IF b.null_ # b1.null_ THEN CalculateStatistics(b1) ELSE b1

(***************************************************************************)
(* fillMissingValues(bands) and getBandIndex() of the three style classes. *)
(* bands[i] of the code is bands[i + 1] here.                              *)
(***************************************************************************)
HasBand(bands, bandIndex) ==
  bandIndex # Undefined /\ Val(bandIndex) + 1 \in 1..Len(bands)

MonochromeFillMissingValues(s, bands) ==
  IF HasBand(bands, s.band_)
    THEN LET bandStat == bands[Val(s.band_) + 1].statistics_
             s1 == IF Falsy(s.min_) /\ Truthy(bandStat.min)
                     THEN MonochromeSetMin(s, {bandStat.min}) ELSE s
         IN IF Falsy(s1.max_) /\ Truthy(bandStat.max)
              THEN MonochromeSetMax(s1, {bandStat.max}) ELSE s1
    ELSE s

PseudocolorFillMissingValues(s, bands) ==
  IF HasBand(bands, s.band_)
    THEN LET bandStat == bands[Val(s.band_) + 1].statistics_
             s1 == IF Falsy(s.min_) /\ Truthy(bandStat.min)
                     THEN PseudocolorSetMin(s, {bandStat.min}) ELSE s
         IN IF Falsy(s1.max_) /\ Truthy(bandStat.max)
              THEN PseudocolorSetMax(s1, {bandStat.max}) ELSE s1
    ELSE s

RGBFillMissingValues(s, bands) ==
  [s EXCEPT !.red_ = MonochromeFillMissingValues(@, bands),
            !.green_ = MonochromeFillMissingValues(@, bands),
            !.blue_ = MonochromeFillMissingValues(@, bands)]

FillMissingValues(s, bands) ==
  CASE s.kind = "m" -> MonochromeFillMissingValues(s, bands)
    [] s.kind = "p" -> PseudocolorFillMissingValues(s, bands)
    [] s.kind = "r" -> RGBFillMissingValues(s, bands)

\* style === null
NullStyle == [kind |-> "null"]

(***************************************************************************)
(* ol/source/Coverage (CoverageSource).  The object is a record of its     *)
(* fields; cls is its class ("coverage", "arcgrid" or "geotiff"), loader   *)
(* the position of its loading code, and events the events dispatched on   *)
(* the source during the last call, in order: a change event with the      *)
(* state a listener then reads from getState(), or a changeband event with *)
(* the index of the band it carries, or a fill entry for a call of          *)
(* style_.fillMissingValues made by setStyle or by the listener it          *)
(* registered.  styleInitListeners counts the listeners setStyle has        *)
(* registered on the source and that were not removed.  Every band of       *)
(* bands_ carries the three listeners of setupChangeEvents_.                *)
(***************************************************************************)
EmptyString == <<>>
NullImage == [type |-> "null"]
NullRet == [type |-> "null"]
ThrowRet == [type |-> "throw"]
OkRet == [type |-> "ok"]

\* The constructor up to (not including) the addBand calls or loadBands().
CoverageSource(options) ==
  [cls |-> options.cls,
   state_ |-> options.state,
   style_ |-> NullStyle,
   styleInitKey_ |-> FALSE,
   styleInitListeners |-> 0,
   bands_ |-> <<>>,
   image_ |-> NullImage,
   rerenderRevision_ |-> 0,
   renderedRevision_ |-> 0,
   renderedChecksum_ |-> EmptyString,
   coverageDrawFunction_ |-> Null,
   url_ |-> options.url,
   wcsExtent_ |-> options.wcsExtent,
   wrapX_ |-> options.wrapX,
   projection_ |-> options.projection,
   reprojectedImage_ |-> NullImage,
   reprojectedRevision_ |-> 0,
   revision_ |-> 0,
   loader |-> "constructing",
   events |-> <<>>]

\* unlistenByKey(this.styleInitKey_); this.styleInitKey_ = null;
UnlistenStyleInit(s) ==
  [s EXCEPT !.styleInitListeners = IF s.styleInitKey_ THEN @ - 1 ELSE @,
            !.styleInitKey_ = FALSE]

\* A plausible slip: the listener fills the style and stays registered.
Mutant_StyleInitListener(s) ==
  IF s.state_ = READY /\ s.style_ # NullStyle
    THEN [s EXCEPT !.style_ = FillMissingValues(@, s.bands_),
                   !.events = Append(@, [type |-> "fill"])]
    ELSE s

\* The change listener setStyle registers while the source is not READY.
StyleInitListener(s) ==
  IF s.state_ = READY
    THEN IF s.style_ = NullStyle
           THEN [s EXCEPT !.events = Append(@, [type |-> "throw"])]
           ELSE UnlistenStyleInit(
                  [s EXCEPT !.style_ = FillMissingValues(@, s.bands_),
                            !.events = Append(@, [type |-> "fill"])])
    ELSE s

\* The n style listeners registered when the change event is dispatched.
RECURSIVE StyleInitListeners(_, _)
StyleInitListeners(s, n) ==
  IF n = 0 THEN s ELSE StyleInitListeners(StyleInitListener(s), n - 1)

\* changed(): the revision is incremented and a change event dispatched; the
\* listener setStyle registered while the source was not READY runs.
Changed(s) ==
  LET s1 == [s EXCEPT !.revision_ = @ + 1,
                      !.events = Append(@, [type |-> "change", state |-> s.state_])]
  IN StyleInitListeners(s1, s1.styleInitListeners)

SetState(s, state) == Changed([s EXCEPT !.state_ = state])

AddBand(s, band) == Changed([s EXCEPT !.bands_ = Append(@, band)])

\* A plausible slip: setStyle without its changed() call.
Mutant_SetStyle(s, style) ==
  LET s1 == [UnlistenStyleInit(s) EXCEPT !.style_ = style]
  IN [s1 EXCEPT !.rerenderRevision_ = s1.revision_]

SetStyle(s, style) ==
  LET s1 == [UnlistenStyleInit(s) EXCEPT !.style_ = style]
      s2 == IF style = NullStyle THEN s1
            ELSE IF s1.state_ = READY
              THEN [s1 EXCEPT !.style_ = FillMissingValues(@, s1.bands_),
                              !.events = Append(@, [type |-> "fill"])]
              ELSE [s1 EXCEPT !.styleInitKey_ = TRUE,
                              !.styleInitListeners = @ + 1]
      s3 == Changed(s2)
  IN [s3 EXCEPT !.rerenderRevision_ = s3.revision_]

SetCoverageDrawFunction(s, coverageDrawFunc) ==
  LET s1 == Changed([s EXCEPT !.coverageDrawFunction_ = coverageDrawFunc])
  IN [s1 EXCEPT !.rerenderRevision_ = s1.revision_]

\* A plausible slip: the band's change only marks the source changed.
Mutant_HandleCoverageChange_(s, i) == Changed(s)

\* handleCoverageChange_ for the band at position i of bands_.
HandleCoverageChange_(s, i) ==
  [Changed(s) EXCEPT !.events = Append(@, [type |-> "changeband", band |-> i - 1])]

\* A plausible slip: the listener marks the image stale for every band.
Mutant_BandChangeListener(s, i) ==
  [src |-> [s EXCEPT !.rerenderRevision_ = s.revision_], ret |-> OkRet]

\* The second CHANGE listener of setupChangeEvents_ (lines 300-311).
BandChangeListener(s, i) ==
  LET hit == [src |-> [s EXCEPT !.rerenderRevision_ = s.revision_], ret |-> OkRet]
      miss == [src |-> s, ret |-> OkRet]
      throw == [src |-> s, ret |-> ThrowRet]
  IN IF s.style_ = NullStyle THEN throw
     ELSE IF s.style_.kind = "r"
       THEN IF \E k \in 1..3 : RGBGetBandIndex(s.style_)[k] = {i - 1}
              THEN hit ELSE miss
     ELSE IF s.style_.band_ = Undefined THEN throw
     ELSE IF s.style_.band_ = {i - 1} THEN hit ELSE miss

\* A CHANGE event of the band at position i: the listeners in the order
\* they were registered.
BandChanged(s, i) == BandChangeListener(HandleCoverageChange_(s, i), i)

\* A PROPERTYCHANGE event of the band at position i.
BandPropertyChanged(s, i) == [src |-> HandleCoverageChange_(s, i), ret |-> OkRet]

RECURSIVE ExtendAll(_, _)
ExtendAll(extent, bands) ==
  IF bands = <<>> THEN extent
  ELSE ExtendAll(Extend(extent, Head(bands).extent_), Tail(bands))

GetExtent(s) == ExtendAll(CreateEmpty, s.bands_)

\* style.apply(...): the styled matrix is a function of the style's
\* parameters, the cell values and the null values it is applied to.
Apply(style, matrices, nodata, minAlpha, maxAlpha) ==
  [by |-> Fresh(style), matrices |-> matrices, nodata |-> nodata,
   minAlpha |-> minAlpha, maxAlpha |-> maxAlpha]

\* The band indices of an RGB style that are defined, in channel order.
DefinedIndices(bandIndex) ==
  SelectSeq(bandIndex, LAMBDA b : b # Undefined)

\* alignRasterBands(toAlign, type) for bands on a common grid.
AlignRasterBands(toAlign) ==
  [matrices |-> [k \in 1..Len(toAlign) |-> toAlign[k].matrix_],
   properties |-> [extent |-> toAlign[1].extent_,
                   stride |-> toAlign[1].stride_,
                   resolution |-> toAlign[1].resolution_]]

StyledBand(extent, matrix, stride, resolution) ==
  [type |-> "band", extent_ |-> extent, matrix_ |-> matrix,
   stride_ |-> stride, resolution_ |-> resolution]

\* getStyledBand(style, minAlpha, maxAlpha): a styled band, null, or a
\* TypeError (bands[i].getNullValue() / band.getCoverageData() on undefined).
GetStyledBand(s, style, minAlpha, maxAlpha) ==
  IF style = NullStyle THEN ThrowRet
  ELSE IF style.kind = "r"
    THEN LET idx == DefinedIndices(RGBGetBandIndex(style))
         IN IF \E k \in 1..Len(idx) : ~HasBand(s.bands_, idx[k]) THEN ThrowRet
            ELSE LET toAlign == [k \in 1..Len(idx) |-> s.bands_[Val(idx[k]) + 1]]
                     aligned == AlignRasterBands(toAlign)
                 IN StyledBand(aligned.properties.extent,
                      Apply(style, aligned.matrices,
                            [k \in 1..Len(idx) |-> toAlign[k].null_],
                            minAlpha, maxAlpha),
                      aligned.properties.stride, aligned.properties.resolution)
  ELSE IF style.band_ # Undefined
    THEN IF ~HasBand(s.bands_, style.band_) THEN ThrowRet
         ELSE LET band == s.bands_[Val(style.band_) + 1]
              IN StyledBand(band.extent_,
                   Apply(style, <<band.matrix_>>, <<band.null_>>, minAlpha, maxAlpha),
                   band.stride_, band.resolution_)
  ELSE NullRet

\* this.style_.getChecksum() where style_ may be null.
StyleGetChecksum(style) ==
  IF style = NullStyle THEN [ret |-> Throw, obj |-> style] ELSE GetChecksum(style)

ImageState == [IDLE |-> "idle", LOADING |-> "loading", LOADED |-> "loaded",
               ERROR |-> "error"]
NullCanvas == [type |-> "null"]
UndefinedBand == [type |-> "undefined"]

CoverageImage(extent, band, coverageDrawFunc) ==
  [type |-> "image", extent |-> extent, band_ |-> band, state |-> ImageState.IDLE,
   coverageDrawFunction_ |-> coverageDrawFunc, canvas_ |-> NullCanvas,
   resolution |-> Undefined]

\* The try block of load(): "TypeError" when band_ is undefined, else what
\* the draw function does: it throws (ThrowRet) or returns a canvas.
TryDraw(img, draw) ==
  IF img.band_ = UndefinedBand THEN [error |-> "TypeError", drawn |-> FALSE]
  ELSE IF draw = ThrowRet THEN [error |-> "throw", drawn |-> TRUE]
  ELSE [error |-> "none", drawn |-> TRUE, canvas |-> draw]

\* load() that lets the draw function's exception through.
Mutant_Load(img, draw) ==
  IF img.state # ImageState.LOADED
    THEN LET try == TryDraw(img, draw)
         IN IF try.error = "none"
              THEN [img |-> [img EXCEPT !.canvas_ = try.canvas,
                                        !.resolution = {GetWidth(img.extent) \div
                                                        try.canvas.height},
                                        !.state = ImageState.LOADED,
                                        !.band_ = UndefinedBand],
                    states |-> <<ImageState.LOADING, ImageState.LOADED>>,
                    drawn |-> try.drawn, threw |-> FALSE]
              ELSE [img |-> [img EXCEPT !.state = ImageState.LOADING],
                    states |-> <<ImageState.LOADING>>,
                    drawn |-> try.drawn, threw |-> TRUE]
    ELSE [img |-> img, states |-> <<>>, drawn |-> FALSE, threw |-> FALSE]

\* load(): the image it leaves, the states of its change events in order,
\* whether the draw function was called and whether load() threw.
Load(img, draw) ==
  IF img.state # ImageState.LOADED
    THEN LET try == TryDraw(img, draw)
         IN IF try.error = "none"
              THEN [img |-> [img EXCEPT !.canvas_ = try.canvas,
                                        !.resolution = {GetWidth(img.extent) \div
                                                        try.canvas.height},
                                        !.state = ImageState.LOADED,
                                        !.band_ = UndefinedBand],
                    states |-> <<ImageState.LOADING, ImageState.LOADED>>,
                    drawn |-> try.drawn, threw |-> FALSE]
              ELSE [img |-> [img EXCEPT !.state = ImageState.ERROR,
                                        !.band_ = UndefinedBand],
                    states |-> <<ImageState.LOADING, ImageState.ERROR>>,
                    drawn |-> try.drawn, threw |-> FALSE]
    ELSE [img |-> img, states |-> <<>>, drawn |-> FALSE, threw |-> FALSE]

\* The else branch of getImageInternal (lines 420-428).
BuildImage(s) ==
  LET styledBand == GetStyledBand(s, s.style_, 255, 0)
  IN IF styledBand = ThrowRet THEN [src |-> s, ret |-> ThrowRet]
     ELSE IF styledBand = NullRet THEN [src |-> s, ret |-> NullRet]
     ELSE LET image == CoverageImage(styledBand.extent_, styledBand,
                                     s.coverageDrawFunction_)
              s1 == [s EXCEPT !.image_ = image, !.renderedRevision_ = s.revision_]
              c == StyleGetChecksum(s1.style_)
          IN IF c.ret = Throw
               THEN [src |-> [s1 EXCEPT !.style_ = c.obj], ret |-> ThrowRet]
               ELSE [src |-> [s1 EXCEPT !.style_ = c.obj,
                                        !.renderedChecksum_ = c.ret],
                     ret |-> image]

GetImageInternal(s, extent) ==
  IF s.state_ = READY /\ Intersects(extent, GetExtent(s))
    THEN IF s.image_ # NullImage /\ s.renderedRevision_ >= s.rerenderRevision_
           THEN LET c == StyleGetChecksum(s.style_)
                    s1 == [s EXCEPT !.style_ = c.obj]
                IN IF c.ret = Throw THEN [src |-> s1, ret |-> ThrowRet]
                   ELSE IF c.ret = s.renderedChecksum_
                     THEN [src |-> s1, ret |-> s1.image_]
                     ELSE BuildImage(s1)
           ELSE BuildImage(s)
    ELSE [src |-> s, ret |-> NullRet]

(***************************************************************************)
(* getImage(extent, resolution, pixelRatio, projection).  A projection is  *)
(* its code; raster reprojection is enabled.                               *)
(***************************************************************************)
UndefinedProjection == "undefined"

\* equivalent(projection1, projection2) of ol/proj.js
Equivalent(p, q) == p = q \/ {p, q} = {"EPSG:3857", "EPSG:900913"}

\* new ReprojImage(sourceProj, targetProj, targetExtent, targetResolution,
\* pixelRatio, getImageFunction): the constructor asks getImageFunction, that
\* is getImageInternal, for the source image.  createdFor is not a field of
\* the image: it keeps the style checksum at the time of construction.
ReprojImageOf(r, checksum, targetProj, targetExtent, targetResolution) ==
  IF r.ret = ThrowRet THEN r
  ELSE [src |-> r.src,
        ret |-> [type |-> "reproj", targetProj_ |-> targetProj,
                 targetExtent_ |-> targetExtent,
                 targetResolution_ |-> targetResolution,
                 sourceImage_ |-> r.ret,
                 createdFor |-> checksum]]

ReprojImage(s, targetProj, targetExtent, targetResolution) ==
  ReprojImageOf(GetImageInternal(s, targetExtent), StyleGetChecksum(s.style_).ret,
                targetProj, targetExtent, targetResolution)

\* getImage records the image it has created and the revision.
RecordReprojected(r) ==
  IF r.ret = ThrowRet
    THEN [src |-> r.src, ret |-> ThrowRet, path |-> "throw"]
    ELSE [src |-> [r.src EXCEPT !.reprojectedImage_ = r.ret,
                                !.reprojectedRevision_ = r.src.revision_],
          ret |-> r.ret, path |-> "created"]

\* getImage without reprojection.
InternalImage(r) == [src |-> r.src, ret |-> r.ret, path |-> "internal"]

\* path: "internal" (no reprojection), "cached", "created" or "throw".
GetImage(s, extent, resolution, projection) ==
  IF \/ s.projection_ = UndefinedProjection
     \/ projection = UndefinedProjection
     \/ Equivalent(s.projection_, projection)
    THEN InternalImage(GetImageInternal(s, extent))
  ELSE
  LET cached == s.reprojectedImage_
      tried == /\ cached # NullImage
               /\ s.reprojectedRevision_ = s.revision_
               /\ Equivalent(cached.targetProj_, projection)
               /\ cached.targetResolution_ = resolution
      c == StyleGetChecksum(s.style_)
  IN IF tried /\ c.ret = Throw
       THEN [src |-> [s EXCEPT !.style_ = c.obj], ret |-> ThrowRet, path |-> "throw"]
     ELSE
     LET s1 == IF tried THEN [s EXCEPT !.style_ = c.obj] ELSE s
     IN IF tried /\ c.ret = s.renderedChecksum_ /\ cached.targetExtent_ = extent
          THEN [src |-> s1, ret |-> cached, path |-> "cached"]
        ELSE
        RecordReprojected(
          ReprojImage([s1 EXCEPT !.reprojectedImage_ = NullImage],
                      projection, extent, resolution))

(***************************************************************************)
(* ol/source/ArcGrid and ol/source/GeoTIFF.  A response is a record: an    *)
(* ArcGrid text of header lines <<name, value>> and cell values, or a TIFF *)
(* of images, each with or without usable georeferencing.                  *)
(***************************************************************************)
\* data_ before it is assigned, and an empty response.
UndefinedData == [type |-> "undefined"]
EmptyResponse == [type |-> "empty"]

HeaderNames == {"NCOLS", "NROWS", "XLLCORNER", "YLLCORNER", "CELLSIZE", "NODATA_VALUE"}

\* The value of a header entry.
HeaderValue(header, name) ==
  LET i == CHOOSE k \in 1..Len(header) : header[k][1] = name IN header[i][2]

\* ArcGrid.parseCoverage_ on the text data (data_), called with the state
\* possibly not LOADING yet.  Fewer than six lines: source[i].split raises.
ArcGridParseCoverage_(s, data) ==
  LET s1 == IF s.state_ # LOADING THEN SetState(s, LOADING) ELSE s
  IN IF data = UndefinedData \/ Len(data.lines) < 6
       THEN [src |-> s1, ret |-> ThrowRet]
     ELSE LET header == SubSeq(data.lines, 1, 6)
              names == {header[k][1] : k \in 1..6}
          IN IF names # HeaderNames
               THEN [src |-> SetState(s1, ERROR), ret |-> OkRet]
             ELSE LET xll == HeaderValue(header, "XLLCORNER")
                      size == HeaderValue(header, "CELLSIZE")
                      band == Band([extent |-> <<xll, xll + size * HeaderValue(header, "NCOLS")>>,
                                    nodata |-> {HeaderValue(header, "NODATA_VALUE")},
                                    matrix |-> data.cells,
                                    resolution |-> size,
                                    stride |-> HeaderValue(header, "NCOLS")])
                  IN [src |-> SetState(AddBand(s1, band), READY), ret |-> OkRet]

\* The loop of GeoTIFF.parseCoverage_ over the images from position i.
RECURSIVE GeoTIFFParseImages(_, _, _)
GeoTIFFParseImages(s, images, i) ==
  IF i > Len(images) THEN s
  ELSE LET image == images[i]
       IN IF ~image.georeferenced /\ ~s.wcsExtent_
            THEN GeoTIFFParseImages(SetState(s, ERROR), images, i + 1)
            ELSE GeoTIFFParseImages(
                   AddBand(s, Band([extent |-> image.extent,
                                    nodata |-> image.nodata,
                                    matrix |-> image.raster,
                                    resolution |-> image.resolution,
                                    stride |-> image.width])),
                   images, i + 1)

\* A plausible slip: READY set whatever the state after the loop.
Mutant_GeoTIFFParseCoverage_(s, data) ==
  LET s1 == IF s.state_ # LOADING THEN SetState(s, LOADING) ELSE s
  IN IF data = UndefinedData \/ data.corrupt
       THEN [src |-> s1, ret |-> ThrowRet]
     ELSE [src |-> SetState(GeoTIFFParseImages(s1, data.images, 1), READY),
           ret |-> OkRet]

\* GeoTIFF.parseCoverage_; GeoTIFF.parse raises on data it cannot read.
GeoTIFFParseCoverage_(s, data) ==
  LET s1 == IF s.state_ # LOADING THEN SetState(s, LOADING) ELSE s
  IN IF data = UndefinedData \/ data.corrupt
       THEN [src |-> s1, ret |-> ThrowRet]
     ELSE LET s2 == GeoTIFFParseImages(s1, data.images, 1)
          IN [src |-> IF s2.state_ = LOADING THEN SetState(s2, READY) ELSE s2,
              ret |-> OkRet]

ParseCoverage_(s, data) ==
  IF s.cls = "arcgrid" THEN ArcGridParseCoverage_(s, data)
  ELSE GeoTIFFParseCoverage_(s, data)

\* loadBands() as the CoverageSource constructor calls it.  data_ is assigned
\* after the super constructor returns, so parseCoverage_ finds it undefined.
LoadBands(s) ==
  IF s.url_
    THEN [src |-> [SetState(s, LOADING) EXCEPT !.loader = "pending"], ret |-> OkRet]
    ELSE LET r == ParseCoverage_(s, UndefinedData)
         IN [src |-> [r.src EXCEPT !.loader = IF r.ret = ThrowRet THEN "dead" ELSE "done"],
             ret |-> r.ret]

\* xhr.onload
XhrOnLoad(s, status, response) ==
  IF status = 0 \/ (status >= 200 /\ status < 300)
    THEN IF response # EmptyResponse
           THEN LET r == ParseCoverage_(s, response)
                IN [src |-> [r.src EXCEPT !.loader = "done"], ret |-> r.ret]
           ELSE [src |-> [SetState(s, ERROR) EXCEPT !.loader = "done"], ret |-> OkRet]
    ELSE [src |-> [SetState(s, ERROR) EXCEPT !.loader = "done"], ret |-> OkRet]

\* xhr.onerror
XhrOnError(s) ==
  [src |-> [SetState(s, ERROR) EXCEPT !.loader = "done"], ret |-> OkRet]

(***************************************************************************)
(* Specification SpecSource: one coverage source (a plain CoverageSource   *)
(* constructed with bands, an ArcGrid or a GeoTIFF source), its loading    *)
(* and the calls made on it and on its bands.                              *)
(***************************************************************************)
\* Most bands of a source and largest revision explored.
MaxBands == 2
MaxRevision == 5

BandOptions ==
  {[extent |-> <<0, 4>>, nodata |-> Null, matrix |-> <<1, 9>>,
    resolution |-> 2, stride |-> 2]}

NullValues == {Null, {1}}

\* Styles handed to setStyle and getStyledBand.
SourceStyles ==
  {DefaultStyle(0), DefaultStyle(1),
   MonochromeSetBandIndex(DefaultStyle(0), Undefined),
   RGB([red |-> DefaultStyle(0), green |-> DefaultStyle(1), blue |-> DefaultStyle(2)]),
   RGB([red |-> DefaultStyle(0),
        green |-> MonochromeSetBandIndex(DefaultStyle(0), Undefined),
        blue |-> MonochromeSetBandIndex(DefaultStyle(0), Undefined)]),
   Pseudocolor([min |-> Undefined, max |-> Undefined, band |-> Undefined,
                startColor |-> Black, endColor |-> White,
                mode |-> INTERPOLATE, breakpoints |-> <<>>])}

DrawFunctions == {Null, {1}}

QueryExtents == {<<0, 2>>, <<10, 12>>}

ValidHeader ==
  <<<<"NCOLS", 2>>, <<"NROWS", 1>>, <<"XLLCORNER", 0>>, <<"YLLCORNER", 0>>,
    <<"CELLSIZE", 2>>, <<"NODATA_VALUE", -1>>>>

ArcGridResponses ==
  {[type |-> "arcgrid", lines |-> ValidHeader, cells |-> <<1, 9>>],
   [type |-> "arcgrid", lines |-> [ValidHeader EXCEPT ![1] = <<"COLS", 2>>],
    cells |-> <<1, 9>>],
   [type |-> "arcgrid", lines |-> SubSeq(ValidHeader, 1, 5), cells |-> <<>>]}

TiffImages ==
  {[georeferenced |-> g, extent |-> <<0, 4>>, nodata |-> {-1},
    raster |-> <<1, 9>>, resolution |-> 2, width |-> 2] : g \in BOOLEAN}

GeoTIFFResponses ==
  {[type |-> "tiff", corrupt |-> TRUE, images |-> <<>>]} \cup
  {[type |-> "tiff", corrupt |-> FALSE, images |-> imgs] :
     imgs \in {<<>>} \cup {<<a>> : a \in TiffImages}
              \cup {<<a, b>> : a \in TiffImages, b \in TiffImages}}

Responses(s) ==
  {EmptyResponse} \cup
    (IF s.cls = "arcgrid" THEN ArcGridResponses ELSE GeoTIFFResponses)

HttpStatuses == {0, 200, 404}

RECURSIVE AddBands(_, _)
AddBands(s, bands) ==
  IF bands = <<>> THEN s ELSE AddBands(AddBand(s, Head(bands)), Tail(bands))

\* A CoverageSource constructed with options.bands.
ConstructedSources ==
  {[AddBands(CoverageSource([cls |-> "coverage", state |-> st, url |-> FALSE,
                             wcsExtent |-> FALSE, wrapX |-> FALSE,
                   projection |-> "EPSG:4326"]), bands)
      EXCEPT !.loader = "done", !.events = <<>>] :
     st \in {READY, UNDEFINED},
     bands \in {<<>>} \cup {<<Band(o)>> : o \in BandOptions}}

\* An ArcGrid or GeoTIFF source inside its constructor, before loadBands().
LoadingSources ==
  {CoverageSource([cls |-> "arcgrid", state |-> UNDEFINED, url |-> u,
                   wcsExtent |-> FALSE, wrapX |-> FALSE,
                   projection |-> "EPSG:4326"]) : u \in BOOLEAN} \cup
  {CoverageSource([cls |-> "geotiff", state |-> UNDEFINED, url |-> u,
                   wcsExtent |-> w, wrapX |-> FALSE,
                   projection |-> "EPSG:4326"]) : u \in BOOLEAN, w \in BOOLEAN}

InitSource ==
  /\ source \in ConstructedSources \cup LoadingSources
  /\ sourceOut = NoOutcome
  /\ styleA = NoStyle
  /\ styleB = NoStyle
  /\ resA = NoResult
  /\ resB = NoResult
  /\ NoRender
  /\ NoOther

\* The source is constructed and can be called.
Live == source.loader \in {"pending", "done"}

\* The source at the start of a call: no event dispatched yet.
Called == [source EXCEPT !.events = <<>>]

\* The call op(arg) leaves the source as src and returns ret; the revision
\* and the state the call started from are kept with its outcome.
Outcome(op, arg, src, ret) ==
  /\ src.revision_ <= MaxRevision
  /\ source' = src
  /\ sourceOut' = [op |-> op, arg |-> arg, ret |-> ret,
                   revision |-> source.revision_, state |-> source.state_]
  /\ UNCHANGED <<styleVars, renderVars, otherVars>>

SrcLoadBands ==
  /\ source.loader = "constructing"
  /\ LET r == LoadBands(Called)
     IN Outcome("loadBands", <<>>, r.src, r.ret)

SrcXhrOnLoad ==
  /\ source.loader = "pending"
  /\ \E status \in HttpStatuses, response \in Responses(source) :
       LET r == XhrOnLoad(Called, status, response)
       IN Outcome("onload", <<>>, r.src, r.ret)

SrcXhrOnError ==
  /\ source.loader = "pending"
  /\ LET r == XhrOnError(Called)
     IN Outcome("onerror", <<>>, r.src, r.ret)

SrcAddBand ==
  /\ Live
  /\ Len(source.bands_) < MaxBands
  /\ \E o \in BandOptions :
       Outcome("addBand", <<Len(source.bands_)>>, AddBand(Called, Band(o)), OkRet)

SrcSetStyle ==
  /\ Live
  /\ \E style \in SourceStyles \cup {NullStyle} :
       Outcome("setStyle", <<>>, SetStyle(Called, style), OkRet)

SrcSetCoverageDrawFunction ==
  /\ Live
  /\ \E f \in DrawFunctions :
       Outcome("setCoverageDrawFunction", <<>>,
               SetCoverageDrawFunction(Called, f), OkRet)

\* band.setNullValue(v) on the band at index i - 1 of the source.
SrcBandSetNullValue ==
  /\ Live
  /\ \E i \in 1..Len(source.bands_), v \in NullValues :
       LET r == BandChanged([Called EXCEPT !.bands_[i] = BandSetNullValue(@, v)], i)
       IN Outcome("setNullValue", <<i - 1>>, r.src, r.ret)

\* band.set(key, value) on the band at index i - 1 of the source.
SrcBandSet ==
  /\ Live
  /\ \E i \in 1..Len(source.bands_) :
       LET r == BandPropertyChanged(Called, i)
       IN Outcome("set", <<i - 1>>, r.src, r.ret)

SrcGetStyledBand ==
  /\ Live
  /\ \E style \in SourceStyles :
       Outcome("getStyledBand", style, Called,
               GetStyledBand(source, style, 1, 0))

SrcGetImageInternal ==
  /\ Live
  /\ \E extent \in QueryExtents :
       LET r == GetImageInternal(Called, extent)
       IN Outcome("getImageInternal", <<>>, r.src, r.ret)

NextSource ==
  \/ SrcLoadBands
  \/ SrcXhrOnLoad
  \/ SrcXhrOnError
  \/ SrcAddBand
  \/ SrcSetStyle
  \/ SrcSetCoverageDrawFunction
  \/ SrcBandSetNullValue
  \/ SrcBandSet
  \/ SrcGetStyledBand
  \/ SrcGetImageInternal

SpecSource == InitSource /\ [][NextSource]_vars

(***************************************************************************)
(* Claims about the coverage source (SpecSource)                           *)
(***************************************************************************)
\* The style refers to a band index the source has no band for.
ReferencesMissingBand(s, style) ==
  IF style.kind = "r"
    THEN \E k \in 1..3 : /\ RGBGetBandIndex(style)[k] # Undefined
                         /\ ~HasBand(s.bands_, RGBGetBandIndex(style)[k])
    ELSE style.band_ # Undefined /\ ~HasBand(s.bands_, style.band_)

\* C6 (as claimed): getStyledBand returns null, and raises nothing, whenever
\* the style's band index, or a defined band index of an RGB style, refers to
\* no band of the source.
C6_GetStyledBandNullForMissingBand ==
  (sourceOut.op = "getStyledBand" /\ ReferencesMissingBand(source, sourceOut.arg))
    => sourceOut.ret = NullRet

\* The states getState() returned during the last call: the state it started
\* from, then the state at each change event.
StateTrace ==
  <<sourceOut.state>> \o
    [k \in 1..Len(SelectSeq(source.events, LAMBDA e : e.type = "change")) |->
       SelectSeq(source.events, LAMBDA e : e.type = "change")[k].state]

StateTransitions == {<<UNDEFINED, LOADING>>, <<LOADING, READY>>, <<LOADING, ERROR>>}

\* C8: the state of an ArcGrid or GeoTIFF source only moves UNDEFINED ->
\* LOADING -> READY or ERROR: READY and ERROR are entered from LOADING only,
\* and once ERROR was set the state is never READY afterwards, within a load
\* and over all later calls.
C8_StateMovesAlongLifecycle ==
  (source.cls \in {"arcgrid", "geotiff"} /\ sourceOut # NoOutcome) =>
    /\ \A k \in 1..(Len(StateTrace) - 1) :
         \/ StateTrace[k] = StateTrace[k + 1]
         \/ <<StateTrace[k], StateTrace[k + 1]>> \in StateTransitions
    /\ StateTrace[Len(StateTrace)] = source.state_
    /\ \A j \in 1..Len(StateTrace), k \in 1..Len(StateTrace) :
         (j < k /\ StateTrace[j] = ERROR) => StateTrace[k] # READY

\* A GeoTIFF whose first image has no usable georeferencing and whose second
\* image has: the load set ERROR, added a band and left the state ERROR.
C8_Witness ==
  /\ source.cls = "geotiff"
  /\ sourceOut.op = "onload"
  /\ source.state_ = ERROR
  /\ Len(source.bands_) > 0
  /\ \E k \in 1..(Len(StateTrace) - 1) :
       StateTrace[k] = LOADING /\ StateTrace[k + 1] = ERROR

Dispatched(type, band) ==
  \E k \in 1..Len(source.events) : source.events[k] = [type |-> type, band |-> band]

\* C9 (as claimed): a changeband event carrying the affected band is
\* dispatched on the source every time one of its bands changes and every
\* time addBand adds a band.
C9_ChangebandOnChangeAndAddBand ==
  sourceOut.op \in {"setNullValue", "set", "addBand"} =>
    Dispatched("changeband", sourceOut.arg[1])

\* C9 (amended): a changeband event carrying the affected band is dispatched
\* on the source every time one of its bands dispatches a change or
\* propertychange event (Band.setNullValue, Band.set), also when a listener
\* registered after it raises; addBand dispatches one change event and no
\* changeband event.
C9_ChangebandOnBandChangeOnly ==
  /\ sourceOut.op \in {"setNullValue", "set"} =>
       /\ Dispatched("changeband", sourceOut.arg[1])
       /\ \A k \in 1..Len(source.events) :
            source.events[k].type = "changeband" =>
              source.events[k].band = sourceOut.arg[1]
  /\ sourceOut.op = "addBand" =>
       /\ Len(source.events) = 1
       /\ source.events[1].type = "change"

\* setNullValue on the second band of a source: changeband carries index 1.
C9_Witness ==
  /\ sourceOut.op = "setNullValue"
  /\ sourceOut.arg = <<1>>
  /\ Dispatched("changeband", 1)

\* C10: the revision never decreases, it strictly increases on every
\* addBand, setStyle and setCoverageDrawFunction call, and renderedRevision_
\* and rerenderRevision_ never exceed it.
C10_RevisionMonotonic ==
  sourceOut # NoOutcome =>
    /\ source.revision_ >= sourceOut.revision
    /\ sourceOut.op \in {"addBand", "setStyle", "setCoverageDrawFunction"} =>
         source.revision_ > sourceOut.revision
    /\ source.renderedRevision_ <= source.revision_
    /\ source.rerenderRevision_ <= source.revision_

\* A setStyle call after an image was built: the revision grew, the rerender
\* revision follows it and the rendered revision stays behind.
C10_Witness ==
  /\ sourceOut.op = "setStyle"
  /\ source.revision_ > sourceOut.revision
  /\ source.rerenderRevision_ = source.revision_
  /\ source.image_ # NullImage
  /\ source.renderedRevision_ > 0
  /\ source.renderedRevision_ < source.revision_


(***************************************************************************)
(* ol/layer/Coverage                                                       *)
(***************************************************************************)
UndefinedStyle == [kind |-> "undefined"]

CoverageLayer(options) ==
  [style_ |-> IF options.style # UndefinedStyle THEN options.style
              ELSE DefaultStyle(0),
   updateWhileAnimating_ |-> options.updateWhileAnimating,
   updateWhileInteracting_ |-> options.updateWhileInteracting,
   revision_ |-> 0]

\* changed() of the layer.
LayerChanged(lay) == [lay EXCEPT !.revision_ = @ + 1]

\* setStyle(style)
LayerSetStyle(lay, style) ==
  LayerChanged([lay EXCEPT !.style_ = IF style # UndefinedStyle THEN style
                                      ELSE DefaultStyle(0)])

\* The layer listens to its source's change event and calls changed().
LayerHandleSourceChange_(lay) == LayerChanged(lay)

(***************************************************************************)
(* The coverage layer renderers (canvas and WebGL).                        *)
(***************************************************************************)
NullGroup == [type |-> "null"]
UndefinedCache == [type |-> "undefined"]

\* The extent of the view projection, which can wrap.
ProjectionExtent == <<-8, 8>>

CoverageLayerRenderer(cls) ==
  [cls |-> cls,
   renderedChecksum_ |-> UndefinedStr,
   renderedSourceRevision_ |-> Undefined,
   buffer_ |-> Undefined,
   coverageCache_ |-> UndefinedCache,
   numVertices_ |-> Undefined,
   renderedResolution |-> Undefined,
   renderedRevision |-> -1,
   renderedExtent |-> CreateEmpty,
   replayGroup |-> NullGroup,
   replayGroupChanged |-> TRUE]

\* A plausible slip: the loop over the cells stops one cell early.
Mutant_CreateGrid(styledCoverage, checksum, sourceRevision, projection) ==
  [type |-> "rtree", extent |-> styledCoverage.extent_,
   cells |-> [styledCoverage.matrix_ EXCEPT
                !.matrices = [k \in DOMAIN @ |-> SubSeq(@[k], 1, Len(@[k]) - 1)]],
   checksum |-> checksum, sourceRevision |-> sourceRevision,
   projection |-> projection]

\* createGrid(styledCoverage, ..., projection, ...): the index holds a
\* geometry for the cells of the styled band, inside the band's extent, in
\* the view projection it is given.
CreateGrid(styledCoverage, checksum, sourceRevision, projection) ==
  [type |-> "rtree", extent |-> styledCoverage.extent_,
   cells |-> styledCoverage.matrix_,
   checksum |-> checksum, sourceRevision |-> sourceRevision,
   projection |-> projection]

\* coverageCache_.getInExtent(extent)
GetInExtent(rtree, extent) ==
  IF Intersects(rtree.extent, extent) THEN <<rtree>> ELSE <<>>

\* new CanvasReplayGroup / WebGLReplayGroup, after renderCoverage and finish.
ReplayGroup(extent, resolution, flatCoverage) ==
  [type |-> "group", extent |-> extent, resolution |-> resolution,
   flatCoverage |-> flatCoverage]

\* The view hints forbid an update of the layer.
SkipFrame(lay, frameState) ==
  \/ ~lay.updateWhileAnimating_ /\ frameState.animating
  \/ ~lay.updateWhileInteracting_ /\ frameState.interacting

\* The canvas renderer widens the frame extent when the view leaves the
\* world of a wrapping source; frameState.extent itself is overwritten.
WrapExtent(src, extent) ==
  IF src.wrapX_ /\ ~ContainsExtent(ProjectionExtent, extent)
    THEN LET worldWidth == GetWidth(ProjectionExtent)
             gutter == MathMax(GetWidth(extent) \div 2, worldWidth)
         IN <<ProjectionExtent[1] - gutter, ProjectionExtent[2] + gutter>>
    ELSE extent

\* An extent-equality slip of the frame-cache test.
Mutant_CanReuse(r, resolution, revision, extent) ==
  /\ r.renderedResolution = {resolution}
  /\ r.renderedRevision = revision
  /\ r.renderedExtent = extent

\* The frame-cache test: same resolution, same layer revision, and the
\* rendered extent contains the frame's extent.
CanReuse(r, resolution, revision, extent) ==
  /\ r.renderedResolution = {resolution}
  /\ r.renderedRevision = revision
  /\ ContainsExtent(r.renderedExtent, extent)

\* A slip of the index test that forgets the source revision.
Mutant_NeedsRebuild(r, checksum, sourceRevision) ==
  r.renderedChecksum_ # checksum

\* The index test: the style checksum or the source revision differs from
\* the values recorded when the index was built.
NeedsRebuild(r, checksum, sourceRevision) ==
  \/ r.renderedChecksum_ # checksum
  \/ r.renderedSourceRevision_ # {sourceRevision}

\* What one prepareFrame call did: the renderer and layer it leaves, and how
\* it ended.  result is "true", "false" or "throw".
FrameDone(r, lay, path, result, extent, rebuilt, newGroup, deleted) ==
  [renderer |-> r, layer |-> lay, path |-> path, result |-> result,
   extent |-> extent, rebuilt |-> rebuilt, newGroup |-> newGroup,
   deleted |-> deleted]

\* A slip that drops the old group without scheduling its deletion.
Mutant_ScheduleDeletion(r) ==
  [renderer |-> [r EXCEPT !.replayGroup = NullGroup], deleted |-> FALSE]

\* WebGL: if (this.replayGroup) { postRenderFunctions.push(
\* this.replayGroup.getDeleteResourcesFunction(context)); this.replayGroup =
\* null; }  deleted: a delete-resources function was pushed.
ScheduleDeletion(r) ==
  IF r.replayGroup # NullGroup
    THEN [renderer |-> [r EXCEPT !.replayGroup = NullGroup], deleted |-> TRUE]
    ELSE [renderer |-> r, deleted |-> FALSE]

\* prepareFrame after the frame-cache test has failed: rebuild the index if
\* needed, query it, and build the replay group that is reported.
RenderFrame(r, lay, src, frameState, extent) ==
  LET canvas == r.cls = "canvas"
      \* canvas: this.replayGroup = null; new CanvasReplayGroup(...)
      r1 == IF canvas THEN [r EXCEPT !.replayGroup = NullGroup] ELSE r
      c == GetChecksum(lay.style_)
      lay1 == [lay EXCEPT !.style_ = c.obj]
  IN IF c.ret = Throw
       THEN FrameDone(r1, lay1, "render", "throw", extent, FALSE, canvas, FALSE)
     ELSE
     LET rebuild == NeedsRebuild(r1, c.ret, src.revision_)
         styledCoverage == GetStyledBand(src, lay1.style_, 1, 0)
     IN IF rebuild /\ styledCoverage = ThrowRet
          THEN FrameDone(r1, lay1, "render", "throw", extent, FALSE, canvas, FALSE)
        ELSE IF rebuild /\ styledCoverage = NullRet
          THEN FrameDone(r1, lay1, "render", "false", extent, FALSE, canvas, FALSE)
        ELSE
        LET r2 == IF rebuild
                    THEN [r1 EXCEPT
                            !.renderedChecksum_ = c.ret,
                            !.renderedSourceRevision_ = {src.revision_},
                            !.buffer_ = {styledCoverage.resolution_},
                            !.coverageCache_ =
                               CreateGrid(styledCoverage, c.ret, src.revision_,
                                          frameState.projection),
                            !.numVertices_ = {8}]
                    ELSE r1
            \* WebGL: the old group's resources are scheduled for deletion.
            deleted == ~canvas /\ ScheduleDeletion(r2).deleted
            r3 == IF canvas THEN r2 ELSE ScheduleDeletion(r2).renderer
            bufferedExtent == Buffer(extent, Val(r3.buffer_))
            flatCoverage == GetInExtent(r3.coverageCache_, bufferedExtent)
        IN IF flatCoverage = <<>>
             THEN FrameDone(r3, lay1, "render", "false", extent, rebuild,
                            canvas, deleted)
           ELSE FrameDone(
                  [r3 EXCEPT
                     !.renderedResolution = {frameState.resolution},
                     !.renderedRevision = lay1.revision_,
                     !.renderedExtent = extent,
                     !.replayGroup = ReplayGroup(extent, frameState.resolution,
                                                 flatCoverage),
                     !.replayGroupChanged = IF canvas THEN TRUE ELSE @],
                  lay1, "render", "true", extent, rebuild, TRUE, deleted)

\* prepareFrame(frameState, layerState) of both renderers.
PrepareFrame(r, lay, src, frameState) ==
  IF lay.style_ = NullStyle
    THEN FrameDone(r, lay, "nostyle", "false", frameState.extent,
                   FALSE, FALSE, FALSE)
  ELSE
  LET c == GetChecksum(lay.style_)
  IN IF c.ret = Throw
       THEN FrameDone(r, [lay EXCEPT !.style_ = c.obj], "checksum", "throw",
                      frameState.extent, FALSE, FALSE, FALSE)
     ELSE
     LET style == IF r.renderedChecksum_ # c.ret
                    THEN FillMissingValues(c.obj, src.bands_)
                    ELSE c.obj
         lay1 == [lay EXCEPT !.style_ = style]
     IN IF SkipFrame(lay1, frameState)
          THEN FrameDone(r, lay1, "skipped", "true", frameState.extent,
                         FALSE, FALSE, FALSE)
        ELSE
        LET extent == IF r.cls = "canvas"
                        THEN WrapExtent(src, frameState.extent)
                        ELSE frameState.extent
        IN IF CanReuse(r, frameState.resolution, lay1.revision_, extent)
             THEN FrameDone([r EXCEPT !.replayGroupChanged = FALSE], lay1,
                            "reused", "true", extent, FALSE, FALSE, FALSE)
           ELSE RenderFrame(r, lay1, src, frameState, extent)

CanvasPrepareFrame(r, lay, src, frameState) == PrepareFrame(r, lay, src, frameState)
WebGLPrepareFrame(r, lay, src, frameState) == PrepareFrame(r, lay, src, frameState)


(***************************************************************************)
(* SpecRender: a coverage layer on a source, drawn by one of the two       *)
(* renderers.  The layer's style is replaced or changed in place, the      *)
(* layer and the source change, and frames are prepared in between.        *)
(***************************************************************************)
\* Largest layer and source revision explored.
MaxFrameRevision == 2

FrameExtents == {<<0, 2>>, <<0, 4>>, <<10, 12>>}
\* Frames of a resting view at every extent, one at another resolution, and
\* one frame of an animating and of an interacting view.
FrameStates ==
  {[resolution |-> 1, extent |-> e, animating |-> FALSE, interacting |-> FALSE,
    projection |-> "EPSG:4326"] : e \in FrameExtents} \cup
  {[resolution |-> 2, extent |-> <<0, 4>>, animating |-> FALSE,
    interacting |-> FALSE, projection |-> "EPSG:4326"]} \cup
  {[resolution |-> 1, extent |-> <<0, 2>>, animating |-> a, interacting |-> ~a,
    projection |-> "EPSG:4326"] : a \in BOOLEAN}

\* updateWhileAnimating and updateWhileInteracting: the defaults, or both.
UpdateOptions == {<<FALSE, FALSE>>}

LayerStyles ==
  {NullStyle, UndefinedStyle,
   MonochromeSetBandIndex(DefaultStyle(0), Undefined),
   Pseudocolor([min |-> Undefined, max |-> Undefined, band |-> {0},
                startColor |-> Black, endColor |-> White,
                mode |-> INTERPOLATE, breakpoints |-> <<>>])}

StyleMinimums == {{5}}

\* Sources with and without a band; the one that wraps is READY.
SourceOptions ==
  {<<READY, FALSE, 0>>, <<READY, FALSE, 1>>, <<READY, TRUE, 1>>,
   <<ERROR, FALSE, 0>>, <<ERROR, FALSE, 1>>, <<UNDEFINED, FALSE, 0>>}

RenderSources ==
  {[AddBands(CoverageSource([cls |-> "coverage", state |-> o[1], url |-> FALSE,
                             wcsExtent |-> FALSE, wrapX |-> o[2],
                             projection |-> "EPSG:4326"]),
             IF o[3] = 0 THEN <<>> ELSE <<Band(b)>>)
      EXCEPT !.loader = "done", !.events = <<>>] :
     o \in SourceOptions, b \in BandOptions}

InitRender ==
  /\ styleA = NoStyle
  /\ styleB = NoStyle
  /\ resA = NoResult
  /\ resB = NoResult
  /\ source \in RenderSources
  /\ sourceOut = NoOutcome
  /\ \E u \in UpdateOptions :
       layer = CoverageLayer([style |-> UndefinedStyle,
                              updateWhileAnimating |-> u[1],
                              updateWhileInteracting |-> u[2]])
  /\ renderer \in {CoverageLayerRenderer(cls) : cls \in {"canvas", "webgl"}}
  /\ lastFrame = NoFrame
  /\ NoOther

\* Something other than prepareFrame happened since the last frame.
Stale(f) == IF f.called THEN [f EXCEPT !.fresh = FALSE] ELSE f

Between ==
  /\ lastFrame' = Stale(lastFrame)
  /\ UNCHANGED <<renderer, styleVars, sourceOut, otherVars>>

PrepareFrameOf(frameStates) ==
  \E frameState \in frameStates :
    \E done \in {IF renderer.cls = "canvas"
                   THEN CanvasPrepareFrame(renderer, layer, source, frameState)
                   ELSE WebGLPrepareFrame(renderer, layer, source, frameState)} :
       /\ renderer' = done.renderer
       /\ layer' = done.layer
       /\ lastFrame' = [called |-> TRUE, fresh |-> TRUE,
                        path |-> done.path, result |-> done.result,
                        resolution |-> frameState.resolution,
                        projection |-> frameState.projection,
                        revision |-> layer.revision_,
                        hinted |-> SkipFrame(layer, frameState),
                        contained |-> ContainsExtent(renderer.renderedExtent,
                                                     done.extent),
                        indexed |-> renderer.coverageCache_ # UndefinedCache,
                        differed |-> \/ renderer.renderedChecksum_ #
                                          StyleGetChecksum(layer.style_).ret
                                     \/ renderer.renderedSourceRevision_ #
                                          {source.revision_},
                        changed |-> \/ renderer.renderedChecksum_ #
                                         StyleGetChecksum(done.layer.style_).ret
                                    \/ renderer.renderedSourceRevision_ #
                                         {source.revision_},
                        rebuilt |-> done.rebuilt,
                        newGroup |-> done.newGroup,
                        deleted |-> done.deleted,
                        sourceState |-> source.state_]
       /\ UNCHANGED <<styleVars, sourceVars, otherVars>>

RenderPrepareFrame == PrepareFrameOf(FrameStates)

RenderLayerSetStyle ==
  \E style \in LayerStyles :
    /\ layer.revision_ < MaxFrameRevision
    /\ layer' = LayerSetStyle(layer, style)
    /\ UNCHANGED source
    /\ Between

\* style.setMin(min) on the layer's style: no event reaches the layer.
RenderStyleSetMin ==
  \E min \in StyleMinimums :
    /\ layer.style_ # NullStyle
    /\ layer.style_.min_ # min
    /\ layer' = [layer EXCEPT !.style_ = SetMinOf(@, min)]
    /\ UNCHANGED source
    /\ Between

RenderLayerChanged ==
  /\ layer.revision_ < MaxFrameRevision
  /\ layer' = LayerChanged(layer)
  /\ UNCHANGED source
  /\ Between

\* source.addBand(band): the source changes and the layer hears of it.
RenderSourceAddBand ==
  \E o \in BandOptions :
    /\ layer.revision_ < MaxFrameRevision
    /\ source.revision_ < MaxFrameRevision
    /\ Len(source.bands_) < MaxBands
    /\ source' = AddBand(Called, Band(o))
    /\ layer' = LayerHandleSourceChange_(layer)
    /\ Between

NextRender ==
  \/ RenderPrepareFrame
  \/ RenderLayerSetStyle
  \/ RenderStyleSetMin
  \/ RenderLayerChanged
  \/ RenderSourceAddBand

SpecRender == InitRender /\ [][NextRender]_vars


(***************************************************************************)
(* lastFrame describes the last prepareFrame call: the view it was given   *)
(* (resolution, layer revision), the path it took ("nostyle", "checksum",  *)
(* "skipped", "reused" or "render"), its result, whether the extent it     *)
(* compared (the frame's extent, as widened by the canvas renderer) was    *)
(* inside the renderer's recorded extent, whether an index existed, whether*)
(* the style checksum or the source revision differed from the recorded    *)
(* values at entry (differed) and once fillMissingValues had run (changed),*)
(* whether the index was rebuilt and whether a replay group was created.   *)
(* projection: the view projection of the frame.                           *)
(* deleted: the call pushed the delete-resources function of the replay    *)
(* group the renderer held onto frameState.postRenderFunctions.            *)
(* hinted: the view was animating or interacting without the layer's       *)
(* updateWhileAnimating / updateWhileInteracting.                          *)
(* fresh: nothing else has happened since.                                 *)
(***************************************************************************)

\* From lastFrame to lastFrame' is a prepareFrame call that follows one.
ConsecutiveFrames == lastFrame.called /\ lastFrame'.called /\ lastFrame'.fresh

\* The earlier call reported a batch, so the recorded resolution, revision
\* and extent are those of its view.
Recorded(f) == f.result = "true" /\ f.path \in {"render", "reused"}

\* C1: of two consecutive prepareFrame calls of either renderer, neither
\* skipped by the animating/interacting rule, with the same view resolution
\* and layer revision and with the second frame's extent (the extent the
\* call compares, which the canvas renderer has widened for a wrapping
\* source) inside the extent recorded by the first, the second neither
\* rebuilds the spatial index nor creates a replay group.
C1_ContainedFrameReusesCache ==
  [][(/\ ConsecutiveFrames
      /\ Recorded(lastFrame)
      /\ lastFrame'.path # "skipped"
      /\ lastFrame'.resolution = lastFrame.resolution
      /\ lastFrame'.revision = lastFrame.revision
      /\ lastFrame'.contained)
     => ~lastFrame'.rebuilt /\ ~lastFrame'.newGroup]_vars

C1_Witness ==
  /\ lastFrame.called
  /\ lastFrame.path = "reused"
  /\ lastFrame.contained
  /\ lastFrame.indexed

\* The index behind the reported batch was built for the style's present
\* checksum and the source's present revision (no batch: nothing is stale).
BatchIsCurrent ==
  \/ renderer.replayGroup = NullGroup
  \/ LET rtree == renderer.replayGroup.flatCoverage[1]
     IN /\ rtree.checksum = StyleGetChecksum(layer.style_).ret
        /\ rtree.sourceRevision = source.revision_

\* C2 as stated: whenever the style's checksum or the source's revision
\* differs from the values recorded at the last index build, the next
\* prepareFrame call that is not skipped rebuilds the index before it
\* reports a batch, and a batch built for an older checksum or source
\* revision is never reported.
C2_DifferenceAlwaysRebuilds ==
  (lastFrame.called /\ lastFrame.fresh /\ lastFrame.path # "skipped"
     /\ lastFrame.result = "true")
  => /\ lastFrame.differed => lastFrame.rebuilt
     /\ BatchIsCurrent

\* C2 as the code has it: a prepareFrame call that is neither skipped nor
\* answered from the frame cache (same resolution and layer revision, extent
\* inside the recorded one) rebuilds the index before it reports a batch
\* whenever the style's checksum, once its missing values are filled in, or
\* the source's revision differs from the recorded values; the batch such a
\* call reports is built for the present checksum and source revision.
C2_RenderedBatchIsCurrent ==
  (lastFrame.called /\ lastFrame.fresh /\ lastFrame.path = "render"
     /\ lastFrame.result = "true")
  => /\ lastFrame.changed => lastFrame.rebuilt
     /\ renderer.replayGroup # NullGroup
     /\ BatchIsCurrent

C2_Witness ==
  /\ lastFrame.called /\ lastFrame.fresh
  /\ lastFrame.path = "render" /\ lastFrame.result = "true"
  /\ lastFrame.indexed /\ lastFrame.changed /\ lastFrame.rebuilt
  /\ Len(source.bands_) = 2

\* C7: while the source state is ERROR or UNDEFINED, prepareFrame of either
\* renderer raises no error and reports nothing to draw, also for a source
\* without bands.
C7_NothingDrawnUnlessReady ==
  (lastFrame.called /\ lastFrame.sourceState \in {ERROR, UNDEFINED})
  => /\ lastFrame.result # "throw"
     /\ ~(lastFrame.path = "render" /\ lastFrame.result = "true")


(***************************************************************************)
(* SpecReproj: a constructed coverage source asked for images in the       *)
(* source projection and in others, while its style and bands change and   *)
(* the image it holds is loaded.                                           *)
(***************************************************************************)
\* Largest source revision explored.
MaxImageRevision == 2

TargetProjections == {"EPSG:4326", "EPSG:3857", "EPSG:900913"}
ImageResolutions == {1, 2}
ImageStyles == {NullStyle, DefaultStyle(0), DefaultStyle(1)}

InitReproj ==
  /\ source \in ConstructedSources
  /\ sourceOut = NoOutcome
  /\ styleA = NoStyle
  /\ styleB = NoStyle
  /\ resA = NoResult
  /\ resB = NoResult
  /\ NoRender
  /\ NoOther

\* getImage(extent, resolution, pixelRatio, projection); the outcome keeps
\* the image and revision that were cached when the call began.
SrcGetImage ==
  /\ Live
  /\ \E extent \in QueryExtents, resolution \in ImageResolutions,
        projection \in TargetProjections :
       \E r \in {GetImage(Called, extent, resolution, projection)} :
         Outcome("getImage",
                 [extent |-> extent, resolution |-> resolution,
                  projection |-> projection,
                  cached |-> source.reprojectedImage_,
                  cachedRevision |-> source.reprojectedRevision_],
                 r.src, [image |-> r.ret, path |-> r.path])

ImgSetStyle ==
  /\ source.revision_ < MaxImageRevision
  /\ \E style \in ImageStyles :
       Outcome("setStyle", <<>>, SetStyle(Called, style), OkRet)

ImgAddBand ==
  /\ source.revision_ < MaxImageRevision
  /\ Len(source.bands_) < MaxBands
  /\ \E o \in BandOptions :
       Outcome("addBand", <<Len(source.bands_)>>, AddBand(Called, Band(o)), OkRet)

\* What the coverage draw function does when called: it throws, or returns
\* a canvas.
DrawOutcomes == {ThrowRet, [type |-> "canvas", height |-> 2]}

\* load() on the image the source holds.
ImgLoad ==
  /\ source.image_ # NullImage
  /\ \E draw \in DrawOutcomes :
       \E r \in {Load(source.image_, draw)} :
         Outcome("load", [draw |-> draw, image |-> source.image_],
                 [Called EXCEPT !.image_ = r.img],
                 [states |-> r.states, drawn |-> r.drawn, threw |-> r.threw])

NextReproj ==
  \/ SrcGetImage
  \/ ImgSetStyle
  \/ ImgAddBand
  \/ ImgLoad

SpecReproj == InitReproj /\ [][NextReproj]_vars

\* The arguments of the getImage call and the source's present revision and
\* style checksum are those the image cached at the call was created for.
SameImageKey ==
  LET a == sourceOut.arg
  IN /\ a.cached # NullImage
     /\ a.cachedRevision = sourceOut.revision
     /\ Equivalent(a.cached.targetProj_, a.projection)
     /\ a.cached.targetResolution_ = a.resolution
     /\ a.cached.targetExtent_ = a.extent
     /\ a.cached.createdFor = StyleGetChecksum(source.style_).ret

\* C11: on the reprojection path getImage returns the cached reprojected
\* image if and only if the source revision, the target projection (up to
\* equivalence), the resolution, the extent and the style checksum equal
\* those the cached image was created for; a newly created image is recorded
\* with the current revision.
C11_CachedImageIffSameKey ==
  (sourceOut.op = "getImage" /\ sourceOut.ret.path # "internal")
  => /\ SameImageKey <=> sourceOut.ret.path = "cached"
     /\ sourceOut.ret.path = "created" =>
          /\ source.reprojectedImage_ = sourceOut.ret.image
          /\ source.reprojectedRevision_ = source.revision_


\* C12 as stated: load never lets the draw function's exception through;
\* each load attempt on an image that is not LOADED moves it to LOADING and
\* then to LOADED (the draw function returned a canvas) or to ERROR (the
\* draw function threw); load() on a LOADED image changes nothing.
C12_LoadEndsAsDrawFunctionDoes ==
  sourceOut.op = "load"
  => LET before == sourceOut.arg.image
         draw == sourceOut.arg.draw
     IN /\ ~sourceOut.ret.threw
        /\ before.state # ImageState.LOADED =>
             sourceOut.ret.states =
               <<ImageState.LOADING,
                 IF draw = ThrowRet THEN ImageState.ERROR ELSE ImageState.LOADED>>
        /\ before.state = ImageState.LOADED =>
             sourceOut.ret.states = <<>> /\ source.image_ = before

\* C12 as the code has it: load never lets an exception of the draw function
\* through.  On an image that is not LOADED it moves to LOADING and then, if
\* the image still holds its band, to LOADED when the draw function returns
\* a canvas and to ERROR when it throws; the band is dropped at the end of
\* the attempt, so a later attempt ends in ERROR without calling the draw
\* function.  load() on a LOADED image changes nothing.
C12_LoadEndsLoadedOrError ==
  sourceOut.op = "load"
  => LET before == sourceOut.arg.image
         draw == sourceOut.arg.draw
         held == before.band_ # UndefinedBand
     IN /\ ~sourceOut.ret.threw
        /\ before.state # ImageState.LOADED =>
             /\ sourceOut.ret.states =
                  <<ImageState.LOADING,
                    IF held /\ draw # ThrowRet THEN ImageState.LOADED
                    ELSE ImageState.ERROR>>
             /\ source.image_.state = sourceOut.ret.states[2]
             /\ sourceOut.ret.drawn <=> held
             /\ source.image_.band_ = UndefinedBand
        /\ before.state = ImageState.LOADED =>
             sourceOut.ret.states = <<>> /\ source.image_ = before

\* A second attempt on an image whose first attempt failed.
C12_Witness ==
  /\ sourceOut.op = "load"
  /\ sourceOut.arg.image.state = ImageState.ERROR
  /\ sourceOut.arg.draw # ThrowRet
  /\ source.image_.state = ImageState.ERROR


(***************************************************************************)
(* ol/render/webgl/PolygonReplay.  A replay is a record of its fields;     *)
(* indices is the length of its index array.  Arrays are sequences: the    *)
(* element at index i of the code is element i + 1 here.  A feature is     *)
(* [id, geom]: its uid and the extent of its geometry (NoGeometry when     *)
(* getGeometry() returns nothing).  A polygon is the number of indices its *)
(* triangulation adds, or NoRings or EmptyRing when nothing is drawn.      *)
(***************************************************************************)
NoGeometry == <<>>
NoRings == -1
EmptyRing == -2
NullColor == "null"

WebGLPolygonReplay ==
  [kind |-> "polygon", indices |-> 0, startIndices |-> <<>>,
   startIndicesFeature |-> <<>>, styles_ |-> <<>>, styleIndices_ |-> <<>>,
   state_ |-> [fillColor |-> NullColor, changed |-> FALSE],
   finished |-> FALSE]

\* setFillStrokeStyle(fillStyle, strokeStyle) with a fill of the given colour.
SetFillStrokeStyle(r, fillStyleColor) ==
  IF r.state_.fillColor = NullColor \/ fillStyleColor # r.state_.fillColor
    THEN [r EXCEPT !.state_ = [fillColor |-> fillStyleColor, changed |-> TRUE],
                   !.styles_ = Append(@, fillStyleColor)]
    ELSE r

\* The start of a feature is recorded, and the start of a style group when
\* the fill colour has changed since the last one.
PushStart(r, start, feature) ==
  [r EXCEPT !.startIndices = Append(@, start),
            !.startIndicesFeature = Append(@, feature),
            !.styleIndices_ = IF r.state_.changed THEN Append(@, start) ELSE @,
            !.state_.changed = FALSE]

\* drawPolygon(polygonGeometry, feature)
DrawPolygon(r, polygon, feature) ==
  IF polygon = NoRings \/ polygon = EmptyRing THEN r
  ELSE [PushStart(r, r.indices, feature) EXCEPT !.indices = @ + polygon]

\* The indices the polygons of a multi-polygon add.
RECURSIVE MultiPolygonIndices(_)
MultiPolygonIndices(polygons) ==
  IF polygons = <<>> THEN 0
  ELSE (IF Head(polygons) < 0 THEN 0 ELSE Head(polygons))
       + MultiPolygonIndices(Tail(polygons))

\* drawMultiPolygon(multiPolygonGeometry, feature)
DrawMultiPolygon(r, polygons, feature) ==
  LET currIndex == r.indices
      r1 == [r EXCEPT !.indices = @ + MultiPolygonIndices(polygons)]
  IN IF r1.indices > currIndex THEN PushStart(r1, currIndex, feature) ELSE r1

\* finish(context)
Finish(r) ==
  [r EXCEPT !.startIndices = Append(@, r.indices),
            !.styles_ = IF Len(r.styleIndices_) = 0 /\ Len(r.styles_) > 0
                          THEN <<>> ELSE @,
            !.finished = TRUE]

\* The test without the look-up in skippedFeaturesHash.
Mutant_HitCandidate(feature, skippedFeaturesHash, hitExtent) ==
  /\ feature.geom # NoGeometry
  /\ hitExtent = Undefined \/ Intersects(Val(hitExtent), feature.geom)

\* The test a feature passes to be drawn and handed to the callback.
HitCandidate(feature, skippedFeaturesHash, hitExtent) ==
  /\ feature.id \notin skippedFeaturesHash
  /\ feature.geom # NoGeometry
  /\ hitExtent = Undefined \/ Intersects(Val(hitExtent), feature.geom)

\* The loops of drawHitDetectionReplayOneByOne from style group i and
\* feature featureIndex on; called is the features given to the callback so
\* far.  truthy is the set of features the callback answers with their uid.
RECURSIVE HitLoop(_, _, _, _, _, _, _)
HitLoop(r, i, featureIndex, called, skippedFeaturesHash, truthy, hitExtent) ==
  IF i < 0 THEN [result |-> Undefined, called |-> called]
  ELSE IF featureIndex >= 0 /\ r.startIndices[featureIndex + 1] >= r.styleIndices_[i + 1]
    THEN LET feature == r.startIndicesFeature[featureIndex + 1]
         IN IF HitCandidate(feature, skippedFeaturesHash, hitExtent)
              THEN IF feature.id \in truthy
                     THEN [result |-> {feature.id}, called |-> Append(called, feature)]
                     ELSE HitLoop(r, i, featureIndex - 1, Append(called, feature),
                                  skippedFeaturesHash, truthy, hitExtent)
              ELSE HitLoop(r, i, featureIndex - 1, called,
                           skippedFeaturesHash, truthy, hitExtent)
    ELSE HitLoop(r, i - 1, featureIndex, called, skippedFeaturesHash, truthy, hitExtent)

\* drawHitDetectionReplayOneByOne(gl, context, skippedFeaturesHash,
\* featureCallback, opt_hitExtent)
DrawHitDetectionReplayOneByOne(r, skippedFeaturesHash, truthy, hitExtent) ==
  HitLoop(r, Len(r.styleIndices_) - 1, Len(r.startIndices) - 2, <<>>,
          skippedFeaturesHash, truthy, hitExtent)


\* One drawElements(gl, context, start, end) call under the fill colour last
\* given to setFillStyle_; cleared: gl.clear(DEPTH_BUFFER_BIT) follows it.
DrawElements(color, start, end, cleared) ==
  [color |-> color, start |-> start, end |-> end, cleared |-> cleared]

\* A plausible slip: every group is drawn up to the end of the index array.
RECURSIVE Mutant_DrawGroups(_, _, _, _)
Mutant_DrawGroups(r, i, end, calls) ==
  IF i < 0 THEN calls
  ELSE Mutant_DrawGroups(r, i - 1, end,
         Append(calls, DrawElements(r.styles_[i + 1], r.styleIndices_[i + 1],
                                    end, FALSE)))

\* The loop of drawReplay over the style groups, from group i down.
RECURSIVE DrawGroups(_, _, _, _)
DrawGroups(r, i, end, calls) ==
  IF i < 0 THEN calls
  ELSE LET start == r.styleIndices_[i + 1]
           nextStyle == r.styles_[i + 1]
       IN DrawGroups(r, i - 1, start,
                     Append(calls, DrawElements(nextStyle, start, end, FALSE)))

\* A plausible slip: the range before a skipped feature is not drawn.
Mutant_SkippedFeature(calls, color, start, end) == calls

\* drawReplaySkipping_ at a skipped feature, and at the end of a group: the
\* range collected so far is drawn, unless it is empty.
SkippedFeature(calls, color, start, end) ==
  IF start # end THEN Append(calls, DrawElements(color, start, end, TRUE))
  ELSE calls

\* The loops of drawReplaySkipping_ from style group i and feature
\* featureIndex on.
RECURSIVE SkippingLoop(_, _, _, _, _, _, _)
SkippingLoop(r, i, featureIndex, start, end, calls, skippedFeaturesHash) ==
  IF i < 0 THEN calls
  ELSE LET nextStyle == r.styles_[i + 1]
           groupStart == r.styleIndices_[i + 1]
       IN IF featureIndex >= 0 /\ r.startIndices[featureIndex + 1] >= groupStart
            THEN LET featureStart == r.startIndices[featureIndex + 1]
                     feature == r.startIndicesFeature[featureIndex + 1]
                 IN IF feature.id \in skippedFeaturesHash
                      THEN SkippingLoop(r, i, featureIndex - 1, featureStart,
                             featureStart,
                             SkippedFeature(calls, nextStyle, start, end),
                             skippedFeaturesHash)
                      ELSE SkippingLoop(r, i, featureIndex - 1, featureStart,
                             end, calls, skippedFeaturesHash)
            ELSE SkippingLoop(r, i - 1, featureIndex, groupStart, groupStart,
                   SkippedFeature(calls, nextStyle, start, end),
                   skippedFeaturesHash)

\* drawReplaySkipping_(gl, context, skippedFeaturesHash)
DrawReplaySkipping_(r, skippedFeaturesHash) ==
  LET featureIndex == Len(r.startIndices) - 2
      end == r.startIndices[featureIndex + 2]
  IN SkippingLoop(r, Len(r.styleIndices_) - 1, featureIndex, end, end, <<>>,
                  skippedFeaturesHash)

\* drawReplay(gl, context, skippedFeaturesHash, hitDetection): the
\* drawElements calls it makes, in order.
DrawReplay(r, skippedFeaturesHash) ==
  IF skippedFeaturesHash # {}
    THEN DrawReplaySkipping_(r, skippedFeaturesHash)
    ELSE DrawGroups(r, Len(r.styleIndices_) - 1,
                    r.startIndices[Len(r.startIndices)], <<>>)


(***************************************************************************)
(* A polygon replay that is filled by setFillStrokeStyle, drawPolygon and  *)
(* drawMultiPolygon, finished, and then hit-tested.  calls counts the draw *)
(* calls, so that the feature of the k-th call has uid k.  A feature also   *)
(* carries the fill colour in effect when it is added (fill), which the    *)
(* replay never reads.                                                     *)
(***************************************************************************)
MaxFeatures == 2
MaxStyles == 3
FillColors == {"red", "blue"}
Polygons == {NoRings, EmptyRing, 0, 3}
MultiPolygons == {<<>>, <<EmptyRing, 3>>}
FeatureGeometries == {NoGeometry, <<0, 2>>, <<10, 12>>}
HitExtents == {Undefined, {<<0, 4>>}}
FeatureIds == 1..MaxFeatures

InitReplay ==
  /\ replay = [obj |-> WebGLPolygonReplay, calls |-> 0]
  /\ replayOut = NoOutcome
  /\ rasterBand = NoBand
  /\ applyIn = NoApply
  /\ applyOut = NoApply
  /\ styleA = NoStyle /\ styleB = NoStyle /\ resA = NoOutcome /\ resB = NoOutcome
  /\ source = NoSource /\ sourceOut = NoOutcome
  /\ NoRender

ReplayRest == <<styleVars, sourceVars, renderVars, rasterBand, applyVars>>

RepSetFillStrokeStyle ==
  /\ ~replay.obj.finished
  /\ Len(replay.obj.styles_) < MaxStyles
  /\ \E color \in FillColors :
       replay' = [replay EXCEPT !.obj = SetFillStrokeStyle(@, color)]
  /\ replayOut' = NoOutcome
  /\ UNCHANGED ReplayRest

RepDrawPolygon ==
  /\ ~replay.obj.finished
  /\ replay.calls < MaxFeatures
  /\ \E polygon \in Polygons, geom \in FeatureGeometries :
       replay' = [obj |-> DrawPolygon(replay.obj, polygon,
                                      [id |-> replay.calls + 1, geom |-> geom,
                                       fill |-> replay.obj.state_.fillColor]),
                  calls |-> replay.calls + 1]
  /\ replayOut' = NoOutcome
  /\ UNCHANGED ReplayRest

RepDrawMultiPolygon ==
  /\ ~replay.obj.finished
  /\ replay.calls < MaxFeatures
  /\ \E polygons \in MultiPolygons, geom \in FeatureGeometries :
       replay' = [obj |-> DrawMultiPolygon(replay.obj, polygons,
                                           [id |-> replay.calls + 1, geom |-> geom,
                                       fill |-> replay.obj.state_.fillColor]),
                  calls |-> replay.calls + 1]
  /\ replayOut' = NoOutcome
  /\ UNCHANGED ReplayRest

RepFinish ==
  /\ ~replay.obj.finished
  /\ replay' = [replay EXCEPT !.obj = Finish(@)]
  /\ replayOut' = NoOutcome
  /\ UNCHANGED ReplayRest

\* Hit detection leaves the replay as it is, so one call on each finished
\* replay reaches every outcome.
RepHitDetection ==
  /\ replay.obj.finished
  /\ replayOut = NoOutcome
  /\ \E skipped \in {s \in SUBSET FeatureIds : Cardinality(s) <= 1},
        truthy \in SUBSET FeatureIds, hitExtent \in HitExtents :
       \E hit \in {DrawHitDetectionReplayOneByOne(replay.obj, skipped, truthy, hitExtent)} :
         replayOut' = [op |-> "hit", skipped |-> skipped, truthy |-> truthy,
                       hitExtent |-> hitExtent, result |-> hit.result,
                       called |-> hit.called]
  /\ UNCHANGED <<replay, ReplayRest>>

\* drawReplay leaves the replay as it is as well.
RepDrawReplay ==
  /\ replay.obj.finished
  /\ replayOut = NoOutcome
  /\ \E skipped \in SUBSET FeatureIds :
       \E calls \in {DrawReplay(replay.obj, skipped)} :
         replayOut' = [op |-> "draw", skipped |-> skipped, calls |-> calls]
  /\ UNCHANGED <<replay, ReplayRest>>

NextReplay ==
  \/ RepDrawReplay
  \/ RepSetFillStrokeStyle
  \/ RepDrawPolygon
  \/ RepDrawMultiPolygon
  \/ RepFinish
  \/ RepHitDetection

SpecReplay == InitReplay /\ [][NextReplay]_vars

\* The positions of startIndicesFeature that belong to a style group: those
\* of the features recorded after the first fill style was set.
StyledPositions(r) ==
  {p \in 1..Len(r.startIndicesFeature) :
     Len(r.styleIndices_) > 0 /\ r.startIndices[p] >= r.styleIndices_[1]}

\* A feature the hit detection may hand to the callback: not skipped, with a
\* geometry, and inside the hit extent when one is given.
Eligible(feature) ==
  /\ feature.id \notin replayOut.skipped
  /\ feature.geom # NoGeometry
  /\ replayOut.hitExtent # Undefined =>
       /\ Val(replayOut.hitExtent)[1] <= feature.geom[2]
       /\ Val(replayOut.hitExtent)[2] >= feature.geom[1]

\* C13: drawHitDetectionReplayOneByOne hands features to the callback in
\* reverse insertion order, never one that is skipped, without geometry or
\* outside the hit extent, stops at the first feature whose callback result
\* is truthy and returns that result, and returns undefined when no result
\* is truthy; no eligible feature of a style group that was inserted after
\* the returned one is left out.
C13_HitDetectionReverseOrder ==
  replayOut.op = "hit" =>
    LET called == replayOut.called
        n == Len(called)
        r == replay.obj
    IN /\ \A k \in 1..n :
            /\ \E p \in 1..Len(r.startIndicesFeature) : r.startIndicesFeature[p] = called[k]
            /\ Eligible(called[k])
            /\ k < n => called[k].id > called[k + 1].id
            /\ k < n => called[k].id \notin replayOut.truthy
       /\ IF n > 0 /\ called[n].id \in replayOut.truthy
            THEN replayOut.result = {called[n].id}
            ELSE replayOut.result = Undefined
       /\ \A p \in StyledPositions(r) :
            LET feature == r.startIndicesFeature[p]
            IN (/\ Eligible(feature)
                /\ replayOut.result # Undefined => feature.id >= Val(replayOut.result))
               => \E k \in 1..n : called[k] = feature

\* Witness: two features in two style groups; the newer one answers truthy
\* and is returned, the older one is never asked although it is eligible
\* and its answer would be truthy too.
C13_Witness ==
  /\ replayOut.op = "hit"
  /\ Len(replay.obj.startIndicesFeature) = 2
  /\ Len(replay.obj.styleIndices_) = 2
  /\ replayOut.skipped = {}
  /\ replayOut.truthy = {1, 2}
  /\ Len(replayOut.called) = 1
  /\ replayOut.result = {2}
  /\ Eligible(replay.obj.startIndicesFeature[1])


(***************************************************************************)
(* A Band on its own: constructed over a small matrix, then given new null *)
(* values and asked to recalculate.  The matrices are those whose mean and *)
(* variance are integers whatever null value is set, so that the integer   *)
(* division of CalculateStatistics is the division of the code.            *)
(***************************************************************************)
MaxCells == 4
CellValues == {1, 3, 5}
BandNullValues == {Null, {3}, {7}}

Matrices == UNION {[1..n -> CellValues] : n \in 0..MaxCells}

ExactFor(matrix, nullValue) ==
  LET cells == SelectSeq(matrix, LAMBDA v : nullValue = Null \/ v # Val(nullValue))
      count == Len(cells)
  IN count > 0 =>
       /\ SumOf(cells) % count = 0
       /\ SumOf(SquaredDeviations(cells, SumOf(cells) \div count)) % count = 0

BandMatrices == {matrix \in Matrices : \A n \in BandNullValues : ExactFor(matrix, n)}

\* new Matrix(matrix, stride, resolution, binary) of ol/coverage/Matrix: the
\* constructor stores its arguments.
Matrix(matrix, stride, resolution, binary) ==
  [matrix_ |-> matrix, stride_ |-> stride, resolution_ |-> resolution,
   binary_ |-> binary]

MatrixStrides == {1, 2, 3}

InitBand ==
  /\ \/ \E matrix \in BandMatrices, nodata \in BandNullValues :
          rasterBand = [kind |-> "band", op |-> "constructor", oldNull |-> nodata,
                        obj |-> Band([extent |-> <<0, 4>>, nodata |-> nodata,
                                      matrix |-> matrix, resolution |-> 2,
                                      stride |-> 2])]
     \/ \E matrix \in BandMatrices, stride \in MatrixStrides :
          rasterBand = [kind |-> "matrix", op |-> "constructor", oldNull |-> Null,
                        obj |-> Matrix(matrix, stride, 2, FALSE)]
  /\ replay = NoReplay /\ replayOut = NoOutcome
  /\ applyIn = NoApply /\ applyOut = NoApply
  /\ styleA = NoStyle /\ styleB = NoStyle /\ resA = NoOutcome /\ resB = NoOutcome
  /\ source = NoSource /\ sourceOut = NoOutcome
  /\ NoRender

BandRest == <<styleVars, sourceVars, renderVars, replayVars, applyVars>>

BandOpSetNullValue ==
  /\ rasterBand.kind = "band"
  /\ \E nullValue \in BandNullValues :
       rasterBand' = [kind |-> "band", op |-> "setNullValue",
                      oldNull |-> rasterBand.obj.null_,
                      obj |-> BandSetNullValue(rasterBand.obj, nullValue)]
  /\ UNCHANGED BandRest

BandOpCalculateStatistics ==
  /\ rasterBand.kind = "band"
  /\ rasterBand' = [kind |-> "band", op |-> "calculateStatistics",
                    oldNull |-> rasterBand.obj.null_,
                    obj |-> CalculateStatistics(rasterBand.obj)]
  /\ UNCHANGED BandRest

NextBand == BandOpSetNullValue \/ BandOpCalculateStatistics

SpecBand == InitBand /\ [][NextBand]_vars

\* The indices of the band's cells that equal its null value.
NullCellIndices(b) ==
  {i \in 1..Len(b.matrix_) : b.null_ # Null /\ b.matrix_[i] = Val(b.null_)}

\* C14: after construction and after every calculateStatistics call, count
\* plus the number of null cells is the number of cells, every cell that is
\* not null lies between min and max, and a band of null cells only has
\* count 0 with min and max left at +Infinity and -Infinity.
C14_StatisticsCoverNonNullCells ==
  (rasterBand.kind = "band" /\ rasterBand.op \in {"constructor", "calculateStatistics"}) =>
    LET b == rasterBand.obj
        stat == b.statistics_
        nulls == NullCellIndices(b)
    IN /\ stat.count + Cardinality(nulls) = Len(b.matrix_)
       /\ \A i \in (1..Len(b.matrix_)) \ nulls :
            stat.min <= b.matrix_[i] /\ b.matrix_[i] <= stat.max
       /\ Cardinality(nulls) = Len(b.matrix_) =>
            stat.count = 0 /\ stat.min = Infinity /\ stat.max = -Infinity

\* Witness: calculateStatistics on a band with null cells and two different
\* cells that are not null.
C14_Witness ==
  /\ rasterBand.op = "calculateStatistics"
  /\ NullCellIndices(rasterBand.obj) # {}
  /\ rasterBand.obj.statistics_.count >= 2
  /\ rasterBand.obj.statistics_.min < rasterBand.obj.statistics_.max

\* C15: whatever setNullValue calls were made, the statistics are those of
\* the cells that differ from the current null value.
C15_StatisticsFollowNullValue ==
  rasterBand.kind = "band" =>
    rasterBand.obj.statistics_ = CalculateStatistics(rasterBand.obj).statistics_

\* Witness: a setNullValue call that changed the null value of a band that
\* holds cells of the new null value and others.
C15_Witness ==
  /\ rasterBand.op = "setNullValue"
  /\ rasterBand.oldNull # rasterBand.obj.null_
  /\ rasterBand.oldNull # Null
  /\ NullCellIndices(rasterBand.obj) # {}
  /\ rasterBand.obj.statistics_.count > 0

\* C16 as stated: the variance of every band is a number that is not
\* negative, also when every cell equals the null value.
C16_VarianceIsNonNegativeNumber ==
  rasterBand.kind = "band" =>
    /\ rasterBand.obj.statistics_.variance # NaN
    /\ rasterBand.obj.statistics_.variance >= 0


\* C16: the variance of a band with a cell that is not null is a number that
\* is not negative, count times which is the sum of the squared deviations
\* of those cells from their mean; the variance of a band without such a
\* cell (count = 0) is NaN.
C16_VarianceNonNegativeUnlessEmpty ==
  rasterBand.kind = "band" =>
    LET b == rasterBand.obj
        stat == b.statistics_
        kept == (1..Len(b.matrix_)) \ NullCellIndices(b)
        Dev(i) == stat.count * b.matrix_[i] - stat.sum
        Squares[s \in SUBSET kept] ==
          IF s = {} THEN 0
          ELSE LET i == CHOOSE j \in s : TRUE
               IN Dev(i) * Dev(i) + Squares[s \ {i}]
    IN IF kept = {}
         THEN stat.variance = NaN
         ELSE /\ stat.variance # NaN
              /\ stat.variance >= 0
              /\ stat.variance * stat.count * stat.count * stat.count = Squares[kept]

\* Witness: setNullValue has made every cell of a band of two cells null.
C16_Witness ==
  /\ rasterBand.op = "setNullValue"
  /\ rasterBand.oldNull # rasterBand.obj.null_
  /\ Len(rasterBand.obj.matrix_) = 2
  /\ Cardinality(NullCellIndices(rasterBand.obj)) = 2
  /\ rasterBand.obj.statistics_.variance = NaN

(***************************************************************************)
(* The apply functions of the three style classes.  A matrix is a sequence *)
(* of cell values, which are integers; the interleaved result is a         *)
(* sequence.  The arithmetic of the code is followed where it leaves the   *)
(* integers: a division by zero gives Infinity, -Infinity or NaN.          *)
(***************************************************************************)
\* A rounding towards minus infinity instead.
Mutant_MathRound(num, den) ==
  IF den = 0
    THEN (IF num > 0 THEN Infinity ELSE IF num < 0 THEN -Infinity ELSE NaN)
    ELSE LET n == IF den < 0 THEN -num ELSE num
             d == IF den < 0 THEN -den ELSE den
         IN n \div d

\* Math.round(num / den): the nearest integer, a half rounded upwards.
MathRound(num, den) ==
  IF den = 0
    THEN (IF num > 0 THEN Infinity ELSE IF num < 0 THEN -Infinity ELSE NaN)
    ELSE LET n == IF den < 0 THEN -num ELSE num
             d == IF den < 0 THEN -den ELSE den
         IN (2 * n + d) \div (2 * d)

\* clamp(value, min, max) of ol/math.js: Math.min(Math.max(value, min), max).
Clamp(value, min, max) ==
  IF value = NaN THEN NaN ELSE MathMin(MathMax(value, min), max)

\* A test that takes no cell for a null cell.
Mutant_IsNodata(v, nodata) == FALSE

\* matrix[i] === nodata
IsNodata(v, nodata) == nodata # Null /\ v = Val(nodata)

\* clamp(Math.round(255 * lerp), 0, 255) for lerp = (v - min) / (max - min).
GreyLevel(v, min, max) == Clamp(MathRound(255 * (v - min), max - min), 0, 255)

\* The grey level Monochrome.apply gives a cell.  A missing min is taken as
\* Math.min.apply(matrix), which is Math.min() = Infinity, and a missing max
\* as -Infinity: (v - Infinity) / range is NaN and (v - min) / -Infinity is 0.
MonochromeValue(s, v) ==
  IF s.min_ = Undefined THEN NaN
  ELSE IF s.max_ = Undefined THEN 0
  ELSE GreyLevel(v, Val(s.min_), Val(s.max_))

\* Monochrome.apply(matrix, nodata, minAlpha, maxAlpha)
RECURSIVE MonochromeApply(_, _, _, _, _)
MonochromeApply(s, matrix, nodata, minAlpha, maxAlpha) ==
  IF matrix = <<>> THEN <<>>
  ELSE LET v == Head(matrix)
           value == MonochromeValue(s, v)
       IN <<value, value, value,
            IF IsNodata(v, nodata) THEN maxAlpha ELSE minAlpha>>
          \o MonochromeApply(s, Tail(matrix), nodata, minAlpha, maxAlpha)

\* Array.prototype.splice(i, 0, x) with i counted from 0.
Splice(seq, i, x) ==
  IF i >= Len(seq) THEN Append(seq, x)
  ELSE SubSeq(seq, 1, i) \o <<x>> \o SubSeq(seq, i + 1, Len(seq))

\* A loop that puts the undefined entries behind the matrices it was given.
RECURSIVE Mutant_SpliceMissing(_, _, _)
Mutant_SpliceMissing(seq, bandIndices, i) ==
  IF i >= 3 THEN seq
  ELSE Mutant_SpliceMissing(IF bandIndices[i + 1] = Undefined
                              THEN Append(seq, Undefined) ELSE seq,
                            bandIndices, i + 1)

\* The loop of RGB.apply that puts undefined in the place of each channel
\* without a band.  An entry is {} for undefined or {x}.
RECURSIVE SpliceMissing(_, _, _)
SpliceMissing(seq, bandIndices, i) ==
  IF i >= 3 THEN seq
  ELSE SpliceMissing(IF bandIndices[i + 1] = Undefined
                       THEN Splice(seq, i, Undefined) ELSE seq,
                     bandIndices, i + 1)

\* The value RGB.apply gives cell i in one channel: 0 for a channel without
\* matrix, NaN when the channel's min or max is undefined.
ChannelValue(channel, matrix, i) ==
  IF matrix = Undefined THEN 0
  ELSE IF channel.min_ = Undefined \/ channel.max_ = Undefined THEN NaN
  ELSE GreyLevel(Val(matrix)[i], Val(channel.min_), Val(channel.max_))

ChannelNodata(matrix, nodata, i) ==
  matrix = Undefined \/ (nodata # Undefined /\ IsNodata(Val(matrix)[i], Val(nodata)))

\* RGB.apply(matrices, nodata, minAlpha, maxAlpha): matrices and nodata hold
\* one entry for each channel that has a band.
RGBApply(s, matrices, nodata, minAlpha, maxAlpha) ==
  LET ms == SpliceMissing([k \in 1..Len(matrices) |-> {matrices[k]}],
                          RGBGetBandIndex(s), 0)
      ns == SpliceMissing([k \in 1..Len(nodata) |-> {nodata[k]}],
                          RGBGetBandIndex(s), 0)
      refMatrix == IF ms[1] # Undefined THEN Val(ms[1])
                   ELSE IF ms[2] # Undefined THEN Val(ms[2])
                   ELSE IF ms[3] # Undefined THEN Val(ms[3]) ELSE <<>>
      Cell(i) == <<ChannelValue(s.red_, ms[1], i),
                   ChannelValue(s.green_, ms[2], i),
                   ChannelValue(s.blue_, ms[3], i),
                   IF /\ ChannelNodata(ms[1], ns[1], i)
                      /\ ChannelNodata(ms[2], ns[2], i)
                      /\ ChannelNodata(ms[3], ns[3], i)
                     THEN maxAlpha ELSE minAlpha>>
  IN [k \in 1..(4 * Len(refMatrix)) |-> Cell(((k - 1) \div 4) + 1)[((k - 1) % 4) + 1]]


RECURSIVE GCD(_, _)
GCD(a, b) == IF b = 0 THEN a ELSE GCD(b, a % b)

\* The number num / den as a pair in lowest terms; <<0, 0>> stands for NaN.
Fraction(num, den) ==
  IF den = 0 THEN <<0, 0>>
  ELSE LET n == IF den < 0 THEN -num ELSE num
           d == IF den < 0 THEN -den ELSE den
           g == GCD(IF n < 0 THEN -n ELSE n, d)
       IN <<n \div g, d \div g>>

\* lerp(a, b, x) of ol/math.js, a + x * (b - a), for x = num / den.
Lerp(a, b, num, den) == Fraction(a * den + num * (b - a), den)

\* The breakpoints in the order they are added.
Mutant_StableSort(breakpoints) == breakpoints

\* stableSort(breakpoints, (a, b) => a[0] - b[0]) of ol/array.js: ascending
\* by value, breakpoints of equal value in the order they had.
RECURSIVE StableSort(_)
StableSort(breakpoints) ==
  IF breakpoints = <<>> THEN <<>>
  ELSE LET n == Len(breakpoints)
           last == breakpoints[n]
           sorted == StableSort(SubSeq(breakpoints, 1, n - 1))
           before == SelectSeq(sorted, LAMBDA p : p[1] <= last[1])
           after == SelectSeq(sorted, LAMBDA p : p[1] > last[1])
       IN before \o <<last>> \o after

\* The loop of createIntervals_ over the sorted breakpoints.
RECURSIVE IntervalsFrom(_, _, _, _)
IntervalsFrom(breakpoints, prev, min, max) ==
  IF breakpoints = <<>> THEN <<>>
  ELSE LET p == Head(breakpoints)
       IN IF p[1] > min /\ p[1] < max
            THEN <<[lower |-> prev, higher |-> p, range |-> p[1] - prev[1]]>>
                 \o IntervalsFrom(Tail(breakpoints), p, min, max)
            ELSE IntervalsFrom(Tail(breakpoints), prev, min, max)

\* createIntervals_(min, max)
CreateIntervals(s, min, max) ==
  LET inner == IntervalsFrom(StableSort(s.breakpoints_),
                             <<min, s.startColor_>>, min, max)
      prev == IF inner = <<>> THEN <<min, s.startColor_>>
              ELSE inner[Len(inner)].higher
  IN Append(inner, [lower |-> prev, higher |-> <<max, s.endColor_>>,
                    range |-> max - prev[1]])

\* The three colour entries of a cell inside [min, max]: those of the first
\* interval the cell does not exceed, none when there is no such interval.
RECURSIVE IntervalColor(_, _, _)
IntervalColor(v, intervals, categorized) ==
  IF intervals = <<>> THEN <<>>
  ELSE LET interval == Head(intervals)
           lower == interval.lower[2]
           higher == interval.higher[2]
           num == v - interval.lower[1]
       IN IF v <= interval.higher[1]
            THEN IF categorized
                   THEN <<Fraction(lower[1], 1), Fraction(lower[2], 1),
                          Fraction(lower[3], 1)>>
                   ELSE <<Lerp(lower[1], higher[1], num, interval.range),
                          Lerp(lower[2], higher[2], num, interval.range),
                          Lerp(lower[3], higher[3], num, interval.range)>>
            ELSE IntervalColor(v, Tail(intervals), categorized)

\* The loop with black for every cell outside the bounds.
RECURSIVE Mutant_PseudocolorCells(_, _, _, _, _, _, _, _)
Mutant_PseudocolorCells(matrix, min, max, intervals, categorized, nodata, minAlpha, maxAlpha) ==
  IF matrix = <<>> THEN <<>>
  ELSE LET v == Head(matrix)
           clipped == Fraction(0, 1)
       IN (IF v < min \/ v > max
             THEN <<clipped, clipped, clipped>>
             ELSE IntervalColor(v, intervals, categorized))
          \o <<IF IsNodata(v, nodata) THEN maxAlpha ELSE minAlpha>>
          \o Mutant_PseudocolorCells(Tail(matrix), min, max, intervals, categorized,
                                     nodata, minAlpha, maxAlpha)

\* The loop of Pseudocolor.apply over the cells.  The colour entries are
\* fractions, the alpha entry is the number handed in.
RECURSIVE PseudocolorCells(_, _, _, _, _, _, _, _)
PseudocolorCells(matrix, min, max, intervals, categorized, nodata, minAlpha, maxAlpha) ==
  IF matrix = <<>> THEN <<>>
  ELSE LET v == Head(matrix)
           clipped == IF v < min THEN Fraction(0, 1) ELSE Fraction(255, 1)
       IN (IF v < min \/ v > max
             THEN <<clipped, clipped, clipped>>
             ELSE IntervalColor(v, intervals, categorized))
          \o <<IF IsNodata(v, nodata) THEN maxAlpha ELSE minAlpha>>
          \o PseudocolorCells(Tail(matrix), min, max, intervals, categorized,
                              nodata, minAlpha, maxAlpha)

\* Pseudocolor.apply(matrix, nodata, minAlpha, maxAlpha).  A missing min is
\* Math.min.apply(matrix) = Infinity and a missing max -Infinity.
PseudocolorApply(s, matrix, nodata, minAlpha, maxAlpha) ==
  LET min == IF s.min_ = Undefined THEN Infinity ELSE Val(s.min_)
      max == IF s.max_ = Undefined THEN -Infinity ELSE Val(s.max_)
  IN PseudocolorCells(matrix, min, max, CreateIntervals(s, min, max),
                      s.mode_ = CATEGORIZED, nodata, minAlpha, maxAlpha)


(***************************************************************************)
(* The apply functions on their own: applyIn holds a style and the         *)
(* arguments of one call, applyOut what the call returns.                  *)
(***************************************************************************)
\* Longest matrix of freely chosen cells.
MaxApplyCells == 2
\* The matrix of the worked example and its null value.
ExampleMatrix == <<1, 2, -9999, 4>>
NodataCell == ExampleMatrix[3]
ApplyNodata == {Null, {NodataCell}, {5}}
\* minAlpha and maxAlpha as getStyledBand's callers pass them.
MinAlpha == 1
MaxAlpha == 0

\* Every matrix of up to MaxApplyCells cells over the given cells.
MatricesOver(cells) == UNION {[1..n -> cells] : n \in 0..MaxApplyCells}
SingleCells(cells) == {<<v>> : v \in cells}

MonochromeBounds == {Undefined, {0}, {1}, {4}, {5}, {255}}
MonochromeCells == (-1..256) \cup {NodataCell}
MonochromeInputs ==
  [kind : {"m"},
   style : {Monochrome([min |-> min, max |-> max, band |-> {0}]) :
              min \in MonochromeBounds, max \in MonochromeBounds},
   matrix : SingleCells(MonochromeCells) \cup MatricesOver({NodataCell, 5})
            \cup {ExampleMatrix},
   nodata : ApplyNodata]

PseudocolorBounds == {Undefined, {0}, {10}}
PseudocolorCellValues == {NodataCell, 0, 2, 3, 5, 7, 10, 12}
ApplyBreakpoints ==
  {<<2, Red>>, <<5, White>>, <<5, Red>>, <<0, Red>>, <<12, White>>}
\* Start and end colours: the defaults, and colours that are neither black
\* nor white.
ApplyColors == {<<Black, White>>, <<Red, Red>>}
BreakpointLists == UNION {[1..n -> ApplyBreakpoints] : n \in 0..MaxBreakpoints}
PseudocolorInputs ==
  [kind : {"p"},
   style : {Pseudocolor([min |-> min, max |-> max, band |-> {0},
                         startColor |-> colors[1], endColor |-> colors[2],
                         mode |-> mode, breakpoints |-> breakpoints]) :
              min \in PseudocolorBounds, max \in PseudocolorBounds,
              colors \in ApplyColors,
              mode \in PseudocolorModes, breakpoints \in BreakpointLists},
   matrix : SingleCells(PseudocolorCellValues) \cup MatricesOver({NodataCell, 5}),
   nodata : ApplyNodata]

\* A channel of an RGB style: without band, or on a band with both bounds,
\* equal bounds or no bounds.
ApplyChannels ==
  {MonochromeSetBandIndex(DefaultStyle(0), Undefined),
   Monochrome([min |-> {0}, max |-> {10}, band |-> {0}]),
   Monochrome([min |-> {5}, max |-> {5}, band |-> {0}]),
   Monochrome([min |-> Undefined, max |-> Undefined, band |-> {0}])}
RGBChannelCells == {5, 7}
RGBInputs ==
  {[kind |-> "r", style |-> s, matrix |-> matrices,
    nodata |-> [k \in 1..Len(matrices) |-> nodata]] :
     s \in {RGB([red |-> r, green |-> g, blue |-> b]) :
              r \in ApplyChannels, g \in ApplyChannels, b \in ApplyChannels},
     matrices \in UNION {[1..3 -> [1..n -> RGBChannelCells]] : n \in 0..MaxApplyCells},
     nodata \in {Null, {5}}}

InitApply ==
  /\ \/ applyIn \in MonochromeInputs
     \/ applyIn \in PseudocolorInputs
     \/ applyIn \in RGBInputs
  /\ applyOut = NoApply
  /\ replay = NoReplay /\ replayOut = NoOutcome
  /\ rasterBand = NoBand
  /\ styleA = NoStyle /\ styleB = NoStyle /\ resA = NoOutcome /\ resB = NoOutcome
  /\ source = NoSource /\ sourceOut = NoOutcome
  /\ NoRender

ApplyRest == <<styleVars, sourceVars, renderVars, replayVars, rasterBand, applyIn>>

ApplyMonochrome ==
  /\ applyIn.kind = "m"
  /\ applyOut' = [kind |-> "out",
                  out |-> MonochromeApply(applyIn.style, applyIn.matrix,
                                          applyIn.nodata, MinAlpha, MaxAlpha)]
  /\ UNCHANGED ApplyRest

ApplyPseudocolor ==
  /\ applyIn.kind = "p"
  /\ applyOut' = [kind |-> "out",
                  out |-> PseudocolorApply(applyIn.style, applyIn.matrix,
                                           applyIn.nodata, MinAlpha, MaxAlpha)]
  /\ UNCHANGED ApplyRest

\* getStyledBand hands RGB.apply the matrices and null values of the
\* channels that have a band.
ApplyRGB ==
  /\ applyIn.kind = "r"
  /\ LET defined == {k \in 1..3 : RGBGetBandIndex(applyIn.style)[k] # Undefined}
         Pick(seq) == SelectSeq([k \in 1..3 |-> <<k, seq[k]>>],
                                LAMBDA e : e[1] \in defined)
         matrices == [k \in 1..Len(Pick(applyIn.matrix)) |-> Pick(applyIn.matrix)[k][2]]
         nodata == [k \in 1..Len(Pick(applyIn.nodata)) |-> Pick(applyIn.nodata)[k][2]]
     IN applyOut' = [kind |-> "out",
                     out |-> RGBApply(applyIn.style, matrices, nodata,
                                      MinAlpha, MaxAlpha)]
  /\ UNCHANGED ApplyRest

NextApply == ApplyMonochrome \/ ApplyPseudocolor \/ ApplyRGB

SpecApply == InitApply /\ [][NextApply]_vars


\* C17: the result of Monochrome.apply and of Pseudocolor.apply holds four
\* entries for each cell of the matrix, in cell order, and the fourth entry
\* of cell i is maxAlpha when the cell equals the nodata value and minAlpha
\* otherwise.
C17_FourEntriesPerCellWithNodataAlpha ==
  (applyOut.kind = "out" /\ applyIn.kind \in {"m", "p"}) =>
    /\ Len(applyOut.out) = 4 * Len(applyIn.matrix)
    /\ \A i \in 1..Len(applyIn.matrix) :
         applyOut.out[4 * i] =
           IF applyIn.nodata # Null /\ applyIn.matrix[i] = Val(applyIn.nodata)
             THEN MaxAlpha ELSE MinAlpha

\* Witness: Pseudocolor.apply on a matrix of a nodata cell and another cell,
\* both inside the bounds of a style with a breakpoint.
C17_Witness ==
  /\ applyOut.kind = "out"
  /\ applyIn.kind = "p"
  /\ applyIn.matrix = <<5, NodataCell>>
  /\ applyIn.nodata = {5}
  /\ applyIn.style.min_ = {0} /\ applyIn.style.max_ = {10}
  /\ Len(applyIn.style.breakpoints_) > 0
  /\ Len(applyOut.out) = 8
  /\ applyOut.out[4] = MaxAlpha /\ applyOut.out[8] = MinAlpha

\* grey is clamp(round(255 * (v - min) / (max - min)), 0, 255) for min < max.
IsGreyLevel(grey, v, min, max) ==
  LET x2 == 2 * 255 * (v - min)
      d == max - min
  IN \/ grey = 0 /\ x2 < d
     \/ grey = 255 /\ x2 >= 2 * 255 * d - d
     \/ /\ 0 < grey /\ grey < 255
        /\ 2 * grey * d - d <= x2 /\ x2 < 2 * grey * d + d

\* C18: with bounds min < max Monochrome.apply writes the grey level
\* clamp(round(255 * (v - min) / (max - min)), 0, 255) of each cell to its
\* R, G and B entries; with min 0 and max 255 every integer cell of 0..255
\* maps to itself; the matrix [1, 2, -9999, 4] with nodata -9999, min 1 and
\* max 4 gives the grey levels 0, 85 and 255 at the cells 0, 1 and 3 and the
\* nodata alpha at cell 2 only.
C18_MonochromeGreyLevels ==
  (/\ applyOut.kind = "out" /\ applyIn.kind = "m"
   /\ applyIn.style.min_ # Undefined /\ applyIn.style.max_ # Undefined
   /\ Val(applyIn.style.min_) < Val(applyIn.style.max_)) =>
    LET min == Val(applyIn.style.min_)
        max == Val(applyIn.style.max_)
        out == applyOut.out
    IN /\ \A i \in 1..Len(applyIn.matrix) :
            /\ IsGreyLevel(out[4 * i - 3], applyIn.matrix[i], min, max)
            /\ out[4 * i - 2] = out[4 * i - 3]
            /\ out[4 * i - 1] = out[4 * i - 3]
            /\ (min = 0 /\ max = 255 /\ applyIn.matrix[i] \in 0..255) =>
                 out[4 * i - 3] = applyIn.matrix[i]
       /\ (applyIn.matrix = ExampleMatrix /\ applyIn.nodata = {-9999}
           /\ min = 1 /\ max = 4) =>
            /\ out[1] = 0 /\ out[5] = 85 /\ out[13] = 255
            /\ out[4] = MinAlpha /\ out[8] = MinAlpha
            /\ out[12] = MaxAlpha /\ out[16] = MinAlpha

\* Witness: the worked example has been applied.
C18_Witness ==
  /\ applyOut.kind = "out"
  /\ applyIn.kind = "m"
  /\ applyIn.matrix = ExampleMatrix
  /\ applyIn.nodata = {-9999}
  /\ applyIn.style.min_ = {1} /\ applyIn.style.max_ = {4}
  /\ applyOut.out[5] = 85

\* The matrix RGB.apply is given for channel k, if the channel has a band.
HasChannel(k) == RGBGetBandIndex(applyIn.style)[k] # Undefined

ChannelOf(k) ==
  CASE k = 1 -> applyIn.style.red_
    [] k = 2 -> applyIn.style.green_
    [] k = 3 -> applyIn.style.blue_

\* C19: for bounds min <= max, equal bounds included, every R, G and B
\* entry written by Monochrome.apply and by RGB.apply is an integer of
\* 0..255.
C19_ComponentsAreBytes ==
  applyOut.kind = "out" =>
    /\ (/\ applyIn.kind = "m"
        /\ applyIn.style.min_ # Undefined /\ applyIn.style.max_ # Undefined
        /\ Val(applyIn.style.min_) <= Val(applyIn.style.max_)) =>
         \A k \in 1..Len(applyOut.out) : k % 4 # 0 => applyOut.out[k] \in 0..255
    /\ (/\ applyIn.kind = "r"
        /\ \A c \in 1..3 :
             HasChannel(c) =>
               /\ ChannelOf(c).min_ # Undefined /\ ChannelOf(c).max_ # Undefined
               /\ Val(ChannelOf(c).min_) <= Val(ChannelOf(c).max_)) =>
         \A k \in 1..Len(applyOut.out) : k % 4 # 0 => applyOut.out[k] \in 0..255

\* The breakpoints in ascending order of value, those of equal value in the
\* order they were added.
Ascending(breakpoints) ==
  LET n == Len(breakpoints)
      order == CHOOSE p \in [1..n -> 1..n] :
                 /\ \A i, j \in 1..n : i # j => p[i] # p[j]
                 /\ \A i, j \in 1..n :
                      i < j => \/ breakpoints[p[i]][1] < breakpoints[p[j]][1]
                               \/ /\ breakpoints[p[i]][1] = breakpoints[p[j]][1]
                                  /\ p[i] < p[j]
  IN [i \in 1..n |-> breakpoints[order[i]]]

\* The breakpoints whose value lies strictly between the style's bounds.
Inside(s) ==
  SelectSeq(s.breakpoints_,
            LAMBDA p : /\ s.min_ # Undefined /\ s.max_ # Undefined
                       /\ Val(s.min_) < p[1] /\ p[1] < Val(s.max_))

\* C20: Pseudocolor.apply returns what it returns for the style with the
\* same breakpoints added in ascending order of value, and what it returns
\* for the style without the breakpoints whose value is not strictly between
\* min and max.
C20_BreakpointOrderIsIrrelevant ==
  (applyOut.kind = "out" /\ applyIn.kind = "p") =>
    LET s == applyIn.style
        Reference(breakpoints) ==
          PseudocolorApply([s EXCEPT !.breakpoints_ = breakpoints],
                           applyIn.matrix, applyIn.nodata, MinAlpha, MaxAlpha)
    IN /\ applyOut.out = Reference(Ascending(s.breakpoints_))
       /\ applyOut.out = Reference(Inside(s))

\* Witness: two breakpoints inside the bounds added in descending order, a
\* third value outside, applied to a cell between the two.
C20_Witness ==
  /\ applyOut.kind = "out"
  /\ applyIn.kind = "p"
  /\ applyIn.style.min_ = {0} /\ applyIn.style.max_ = {10}
  /\ applyIn.style.mode_ = INTERPOLATE
  /\ applyIn.style.breakpoints_ = <<<<5, White>>, <<2, Red>>>>
  /\ applyIn.matrix = <<3>>
  /\ applyOut.out[2] = <<85, 1>>


\* The start colour at min followed by the breakpoints strictly between the
\* bounds in ascending order: the lower bounds of the intervals.
LowerBounds(s) == <<<<Val(s.min_), s.startColor_>>>> \o Ascending(Inside(s))

\* The lower bound of the interval that holds v when every interval takes
\* its lower value and leaves its upper value to the next one.
LowerBoundOf(s, v) ==
  LET bounds == LowerBounds(s)
      k == CHOOSE i \in 1..Len(bounds) :
             /\ bounds[i][1] <= v
             /\ \A j \in (i + 1)..Len(bounds) : bounds[j][1] > v
  IN bounds[k]

\* C21: in CATEGORIZED mode a cell within [min, max] gets the colour of the
\* lower bound of the interval that holds it, the intervals taking their
\* lower value but not their upper one, save the last, which takes max; a
\* cell equal to a breakpoint value gets that breakpoint's colour.
C21_CategorizedLowerInclusive ==
  (/\ applyOut.kind = "out" /\ applyIn.kind = "p"
   /\ applyIn.style.mode_ = CATEGORIZED
   /\ applyIn.style.min_ # Undefined /\ applyIn.style.max_ # Undefined) =>
    \A i \in 1..Len(applyIn.matrix) :
      LET v == applyIn.matrix[i]
          color == LowerBoundOf(applyIn.style, v)[2]
      IN (Val(applyIn.style.min_) <= v /\ v <= Val(applyIn.style.max_)) =>
           /\ applyOut.out[4 * i - 3] = <<color[1], 1>>
           /\ applyOut.out[4 * i - 2] = <<color[2], 1>>
           /\ applyOut.out[4 * i - 1] = <<color[3], 1>>


C23_ChannelsMatchedByPosition ==
  (applyOut.kind = "out" /\ applyIn.kind = "r") =>
    LET present == {c \in 1..3 : HasChannel(c)}
        n == IF present = {} THEN 0 ELSE Len(applyIn.matrix[1])
    IN /\ Len(applyOut.out) = 4 * n
       /\ \A i \in 1..n :
            /\ \A c \in 1..3 :
                 LET entry == applyOut.out[4 * i - 4 + c]
                     min == ChannelOf(c).min_
                     max == ChannelOf(c).max_
                 IN /\ c \notin present => entry = 0
                    /\ (/\ c \in present /\ min # Undefined /\ max # Undefined
                        /\ Val(min) < Val(max)) =>
                         IsGreyLevel(entry, applyIn.matrix[c][i], Val(min), Val(max))
            /\ applyOut.out[4 * i] =
                 IF \A c \in present :
                      /\ applyIn.nodata[c] # Null
                      /\ applyIn.matrix[c][i] = Val(applyIn.nodata[c])
                   THEN MaxAlpha ELSE MinAlpha

\* Witness: a style without red band applied to a green cell 5 and a blue
\* cell 7.
C23_Witness ==
  /\ applyOut.kind = "out"
  /\ applyIn.kind = "r"
  /\ ~HasChannel(1) /\ HasChannel(2) /\ HasChannel(3)
  /\ applyIn.style.green_.max_ = {10} /\ applyIn.style.blue_.max_ = {10}
  /\ applyIn.matrix[1] = <<7>> /\ applyIn.matrix[2] = <<5>> /\ applyIn.matrix[3] = <<7>>
  /\ applyIn.nodata[2] = {5}
  /\ applyOut.out = <<0, 128, 179, MinAlpha>>

(***************************************************************************)
(* fillMissingValues on its own: applyIn holds a style and the bands it is *)
(* filled from, applyOut the style afterwards.                             *)
(***************************************************************************)
FillBounds == {Undefined, {0}, {3}}
FillBandIndices == {Undefined, {0}, {1}, {2}}
\* Bands whose minimum is 1, whose minimum is 0, and whose cells are zeros.
FillBands ==
  {Band([extent |-> <<0, 4>>, nodata |-> Null, matrix |-> matrix,
         resolution |-> 2, stride |-> 2]) : matrix \in {<<1, 9>>, <<0, 4>>, <<0, 0>>}}
FillBandLists == UNION {[1..n -> FillBands] : n \in 1..MaxBands}
FillMonochromes ==
  {MonochromeSetBandIndex(Monochrome([min |-> min, max |-> max, band |-> {0}]), band) :
     min \in FillBounds, max \in FillBounds, band \in FillBandIndices}
FillPseudocolors ==
  {PseudocolorSetBandIndex(
     Pseudocolor([min |-> min, max |-> max, band |-> {0}, startColor |-> Black,
                  endColor |-> White, mode |-> INTERPOLATE, breakpoints |-> <<>>]),
     band) :
     min \in FillBounds, max \in FillBounds, band \in FillBandIndices}
FillChannels ==
  {Monochrome([min |-> Undefined, max |-> Undefined, band |-> {0}]),
   Monochrome([min |-> {0}, max |-> {3}, band |-> {1}]),
   Monochrome([min |-> {3}, max |-> Undefined, band |-> {2}])}
FillRGBs ==
  {RGB([red |-> r, green |-> g, blue |-> b]) :
     r \in FillChannels, g \in FillChannels, b \in FillChannels}

InitFill ==
  /\ \E bands \in FillBandLists :
       \/ \E s \in FillMonochromes : applyIn = [kind |-> "fill", style |-> s, bands |-> bands]
       \/ \E s \in FillPseudocolors : applyIn = [kind |-> "fill", style |-> s, bands |-> bands]
       \/ \E s \in FillRGBs : applyIn = [kind |-> "fill", style |-> s, bands |-> bands]
  /\ applyOut = NoApply
  /\ replay = NoReplay /\ replayOut = NoOutcome
  /\ rasterBand = NoBand
  /\ styleA = NoStyle /\ styleB = NoStyle /\ resA = NoOutcome /\ resB = NoOutcome
  /\ source = NoSource /\ sourceOut = NoOutcome
  /\ NoRender

FillMonochrome ==
  /\ applyIn.style.kind = "m"
  /\ applyOut' = [kind |-> "filled",
                  style |-> MonochromeFillMissingValues(applyIn.style, applyIn.bands)]
  /\ UNCHANGED ApplyRest

FillPseudocolor ==
  /\ applyIn.style.kind = "p"
  /\ applyOut' = [kind |-> "filled",
                  style |-> PseudocolorFillMissingValues(applyIn.style, applyIn.bands)]
  /\ UNCHANGED ApplyRest

FillRGB ==
  /\ applyIn.style.kind = "r"
  /\ applyOut' = [kind |-> "filled",
                  style |-> RGBFillMissingValues(applyIn.style, applyIn.bands)]
  /\ UNCHANGED ApplyRest

NextFill == FillMonochrome \/ FillPseudocolor \/ FillRGB

SpecFill == InitFill /\ [][NextFill]_vars

\* A single-band style after fillMissingValues: each bound that was unset is
\* the statistic of the band the style refers to, each bound that was set is
\* what it was.
FilledAsStated(before, after, bands) ==
  (before.band_ # Undefined /\ Val(before.band_) < Len(bands)) =>
    LET stat == bands[Val(before.band_) + 1].statistics_
    IN /\ after.min_ = IF before.min_ = Undefined THEN {stat.min} ELSE before.min_
       /\ after.max_ = IF before.max_ = Undefined THEN {stat.max} ELSE before.max_

\* C24: fillMissingValues of Monochrome, of Pseudocolor and of each channel
\* of RGB sets min, and max, to the statistic of the band the style refers
\* to exactly when that bound is unset, and never changes a bound that was
\* set, 0 included.
C24_FillsExactlyUnsetBounds ==
  applyOut.kind = "filled" =>
    IF applyIn.style.kind = "r"
      THEN /\ FilledAsStated(applyIn.style.red_, applyOut.style.red_, applyIn.bands)
           /\ FilledAsStated(applyIn.style.green_, applyOut.style.green_, applyIn.bands)
           /\ FilledAsStated(applyIn.style.blue_, applyOut.style.blue_, applyIn.bands)
      ELSE FilledAsStated(applyIn.style, applyOut.style, applyIn.bands)


\* C25: no Matrix and no Band exists whose data length is not a multiple of
\* its stride: constructing one fails with an error.
C25_LengthIsMultipleOfStride ==
  rasterBand.kind \in {"band", "matrix"} =>
    Len(rasterBand.obj.matrix_) % rasterBand.obj.stride_ = 0

(***************************************************************************)
(* Pseudocolor.removeBreakpoint with a numeric index (SpecStyle)           *)
(***************************************************************************)
\* The list without its element at the 0-based position i.
WithoutPosition(bps, i) ==
  [k \in 1..(Len(bps) - 1) |-> IF k <= i THEN bps[k] ELSE bps[k + 1]]

\* C26: removeBreakpoint(i) removes the breakpoint at position i for every
\* valid index 0 <= i < number of breakpoints, and forgets the cached checksum
\* so that a later getChecksum reflects the removal.
C26_RemoveBreakpointAtEveryValidIndex ==
  styleA.kind = "p" =>
    \A i \in 0..(Len(styleA.breakpoints_) - 1) :
      LET after == PseudocolorRemoveBreakpointAt(styleA, i)
      IN /\ after.breakpoints_ = WithoutPosition(styleA.breakpoints_, i)
         /\ after.checksum_ = UndefinedStr


(***************************************************************************)
(* clone() of the three styles                                             *)
(***************************************************************************)
\* Monochrome.clone: a new Monochrome from getMin, getMax and getBandIndex.
MonochromeClone(s) ==
  Monochrome([min |-> s.min_, max |-> s.max_, band |-> s.band_])

\* Pseudocolor.clone.  With a non-empty breakpoint list the loop reads
\* breakpoint.color of an array [value, color]; that is undefined and
\* undefined.slice() raises a TypeError.
PseudocolorClone(s) ==
  IF Len(s.breakpoints_) > 0 THEN NullStyle
  ELSE Pseudocolor([min |-> s.min_, max |-> s.max_, band |-> s.band_,
                    startColor |-> s.startColor_, endColor |-> s.endColor_,
                    mode |-> s.mode_, breakpoints |-> <<>>])

\* RGB.clone: a new RGB from the clones of the three channels.
RGBClone(s) ==
  RGB([red |-> MonochromeClone(s.red_), green |-> MonochromeClone(s.green_),
       blue |-> MonochromeClone(s.blue_)])

(***************************************************************************)
(* Specification SpecClone: a style is cloned, then the clone is mutated.  *)
(* applyIn holds the original, applyOut the clone (NullStyle when clone    *)
(* raised an error).                                                       *)
(***************************************************************************)
CloneBreakpointLists ==
  {<<>>} \cup {<<<<v, c>>>> : v \in BreakpointValues, c \in BreakpointColors}
         \cup {<<<<0, Red>>, <<5, c>>>> : c \in BreakpointColors}

ClonePseudocolors ==
  {AddBreakpoints(PseudocolorSetBandIndex(PseudocolorSetMode(p, m), b), bps) :
     p \in PseudocolorStyles, m \in PseudocolorModes, b \in PseudocolorBands,
     bps \in CloneBreakpointLists}

InitClone ==
  /\ \/ \E s \in ReachableMonochromes : applyIn = [kind |-> "clone", style |-> s]
     \/ \E s \in ClonePseudocolors : applyIn = [kind |-> "clone", style |-> s]
     \/ \E s \in RGBStyles : applyIn = [kind |-> "clone", style |-> s]
  /\ applyOut = NoApply
  /\ replay = NoReplay /\ replayOut = NoOutcome
  /\ rasterBand = NoBand
  /\ styleA = NoStyle /\ styleB = NoStyle /\ resA = NoOutcome /\ resB = NoOutcome
  /\ source = NoSource /\ sourceOut = NoOutcome
  /\ NoRender

CloneMonochrome ==
  /\ applyIn.style.kind = "m"
  /\ applyOut = NoApply
  /\ applyOut' = [kind |-> "cloned", mutated |-> FALSE,
                  style |-> MonochromeClone(applyIn.style)]
  /\ UNCHANGED ApplyRest

ClonePseudocolor ==
  /\ applyIn.style.kind = "p"
  /\ applyOut = NoApply
  /\ applyOut' = [kind |-> "cloned", mutated |-> FALSE,
                  style |-> PseudocolorClone(applyIn.style)]
  /\ UNCHANGED ApplyRest

CloneRGB ==
  /\ applyIn.style.kind = "r"
  /\ applyOut = NoApply
  /\ applyOut' = [kind |-> "cloned", mutated |-> FALSE,
                  style |-> RGBClone(applyIn.style)]
  /\ UNCHANGED ApplyRest

\* setMin / setMax on the clone of a Monochrome or Pseudocolor style.
CloneSetBound ==
  /\ applyOut.kind = "cloned"
  /\ applyOut.style.kind \in {"m", "p"}
  /\ \E v \in PseudocolorNums :
       \/ applyOut' = [applyOut EXCEPT !.mutated = TRUE,
                                       !.style = SetMinOf(@, {v})]
       \/ applyOut' = [applyOut EXCEPT !.mutated = TRUE,
                                       !.style = SetMaxOf(@, {v})]
  /\ UNCHANGED ApplyRest

\* addBreakpoint on the clone of a Pseudocolor style.
CloneAddBreakpoint ==
  /\ applyOut.kind = "cloned"
  /\ applyOut.style.kind = "p"
  /\ Len(applyOut.style.breakpoints_) < MaxBreakpoints
  /\ \E v \in BreakpointValues, c \in BreakpointColors :
       applyOut' = [applyOut EXCEPT !.mutated = TRUE,
                      !.style = PseudocolorAddBreakpoint(@, <<v, c>>)]
  /\ UNCHANGED ApplyRest

\* getRed().setMin(v) on the clone of an RGB style.
CloneSetChannelBound ==
  /\ applyOut.kind = "cloned"
  /\ applyOut.style.kind = "r"
  /\ \E v \in ChannelNums :
       applyOut' = [applyOut EXCEPT !.mutated = TRUE,
                      !.style.red_ = MonochromeSetMin(@, {v})]
  /\ UNCHANGED ApplyRest

NextClone ==
  \/ CloneMonochrome
  \/ ClonePseudocolor
  \/ CloneRGB
  \/ CloneSetBound
  \/ CloneAddBreakpoint
  \/ CloneSetChannelBound

SpecClone == InitClone /\ [][NextClone]_vars

\* The parameters of a style: everything but the cached checksum.
SameParameters(a, b) ==
  /\ a.kind = b.kind
  /\ CASE a.kind = "m" -> a.min_ = b.min_ /\ a.max_ = b.max_ /\ a.band_ = b.band_
       [] a.kind = "p" -> /\ a.min_ = b.min_ /\ a.max_ = b.max_
                          /\ a.band_ = b.band_ /\ a.mode_ = b.mode_
                          /\ a.startColor_ = b.startColor_
                          /\ a.endColor_ = b.endColor_
                          /\ a.breakpoints_ = b.breakpoints_
       [] a.kind = "r" -> \A ch \in ChannelNames :
                            /\ a[ch].min_ = b[ch].min_ /\ a[ch].max_ = b[ch].max_
                            /\ a[ch].band_ = b[ch].band_
       [] OTHER -> FALSE

\* C27: clone() returns, without an error, a style whose parameters equal
\* the original's (until the clone is mutated).
C27_CloneHasEqualParameters ==
  (applyOut.kind = "cloned" /\ ~applyOut.mutated) =>
    SameParameters(applyOut.style, applyIn.style)


(***************************************************************************)
(* ArcGrid constructed with preloaded data (SpecSource)                    *)
(***************************************************************************)
\* The first statement of the ArcGrid constructor:
\* assert(options.raster || options.url, 63).
ArcGridAssertion(options) == options.raster \/ options.url

\* C28: an ArcGrid source constructed with preloaded data and no url (and no
\* other option) passes the constructor without an error, and its loadBands
\* call leaves it READY with exactly one band, or in ERROR.
C28_PreloadedArcGridEndsReadyOrError ==
  (source.cls = "arcgrid" /\ ~source.url_ /\ sourceOut.op = "loadBands") =>
    /\ ArcGridAssertion([raster |-> FALSE, url |-> source.url_])
    /\ sourceOut.ret = OkRet
    /\ source.state_ \in {READY, ERROR}
    /\ source.state_ = READY => Len(source.bands_) = 1


(***************************************************************************)
(* The spatial index of the renderers (SpecRender)                         *)
(***************************************************************************)
\* Nothing of an index is recorded.
IndexAbsent ==
  /\ renderer.coverageCache_ = UndefinedCache
  /\ renderer.renderedChecksum_ = UndefinedStr
  /\ renderer.renderedSourceRevision_ = Undefined

\* An index exists and is the one built for the recorded checksum and
\* source revision.
IndexRecorded ==
  /\ renderer.coverageCache_ # UndefinedCache
  /\ renderer.renderedChecksum_ # UndefinedStr
  /\ renderer.renderedSourceRevision_ # Undefined
  /\ renderer.coverageCache_.checksum = renderer.renderedChecksum_
  /\ renderer.coverageCache_.sourceRevision = Val(renderer.renderedSourceRevision_)

\* C29: between prepareFrame calls the index, renderedChecksum_ and
\* renderedSourceRevision_ are either all unset, or the index is the one built
\* for exactly the recorded checksum and source revision; an index just
\* rebuilt holds every cell of the band styled with the layer's style, for
\* the style's checksum and the source's revision; a call that queried the
\* index (it got past the frame-cache test and did not end before the
\* query) found an index.
C29_IndexAbsentOrConsistent ==
  /\ IndexAbsent \/ IndexRecorded
  /\ (lastFrame.called /\ lastFrame.fresh /\ lastFrame.rebuilt) =>
       LET styledCoverage == GetStyledBand(source, layer.style_, 1, 0)
       IN /\ renderer.coverageCache_.cells = styledCoverage.matrix_
          /\ renderer.coverageCache_.extent = styledCoverage.extent_
          /\ renderer.renderedChecksum_ = StyleGetChecksum(layer.style_).ret
          /\ renderer.renderedSourceRevision_ = {source.revision_}
  /\ (lastFrame.called /\ lastFrame.fresh /\ lastFrame.path = "render"
        /\ (lastFrame.result = "true" \/ lastFrame.rebuilt)) =>
       renderer.coverageCache_ # UndefinedCache

\* A second index has replaced the first: the source got a band after the
\* first build and the next rendered frame rebuilt the index.
C29_Witness ==
  /\ lastFrame.called /\ lastFrame.fresh
  /\ lastFrame.indexed /\ lastFrame.rebuilt
  /\ renderer.coverageCache_.sourceRevision > 0
  /\ Len(renderer.coverageCache_.cells.matrices[1]) > 0


(***************************************************************************)
(* Frames of an animating or interacting view (SpecRender)                 *)
(***************************************************************************)
\* What a skipped frame is said to leave alone.
SkipKeeps(r) ==
  <<r.replayGroup, r.coverageCache_, r.renderedChecksum_,
    r.renderedSourceRevision_, r.renderedResolution, r.renderedRevision,
    r.renderedExtent>>

\* C30: a prepareFrame call on a layer with a style, for a view that is
\* animating while updateWhileAnimating is false, or interacting while
\* updateWhileInteracting is false, returns true and leaves the replay group,
\* the index, renderedChecksum_, renderedSourceRevision_, renderedResolution,
\* renderedRevision and renderedExtent unchanged.
C30_HintedFrameReturnsTrueUnchanged ==
  [][(/\ lastFrame'.called /\ lastFrame'.fresh /\ lastFrame'.hinted
      /\ layer.style_ # NullStyle)
     => /\ lastFrame'.result = "true"
        /\ SkipKeeps(renderer') = SkipKeeps(renderer)]_vars


(***************************************************************************)
(* drawReplay of a finished polygon replay (SpecReplay)                    *)
(***************************************************************************)
\* The number of drawElements calls whose range holds the index x.
TimesDrawn(calls, x) ==
  Cardinality({k \in 1..Len(calls) : calls[k].start <= x /\ x < calls[k].end})

\* The k-th call of a draw without skipped features draws style group
\* n - k + 1 of n, from its start index to the next group's start index (to
\* the total index count for the last group).
GroupsDrawnInReverse(r, calls) ==
  LET n == Len(r.styleIndices_)
  IN /\ Len(calls) = n
     /\ \A k \in 1..n :
          LET g == n - k + 1
          IN /\ calls[k].start = r.styleIndices_[g]
             /\ calls[k].end = IF g = n THEN r.indices ELSE r.styleIndices_[g + 1]

\* C31 as stated: with an empty skip hash drawReplay issues one drawElements
\* call per style group, in reverse insertion order, from the group's start
\* index to the next group's start index, and the ranges cover the indices
\* of every added feature exactly once.
C31_GroupsCoverEveryFeature ==
  (replayOut.op = "draw" /\ replayOut.skipped = {}) =>
    /\ GroupsDrawnInReverse(replay.obj, replayOut.calls)
    /\ \A x \in 0..(replay.obj.indices - 1) : TimesDrawn(replayOut.calls, x) = 1

\* C31 as the code has it: the ranges cover exactly once the indices of the
\* features added after the first setFillStrokeStyle call (from the first
\* style group's start index on); indices added before it are not drawn.
C31_GroupsCoverStyledFeatures ==
  (replayOut.op = "draw" /\ replayOut.skipped = {}) =>
    /\ GroupsDrawnInReverse(replay.obj, replayOut.calls)
    /\ \A x \in 0..(replay.obj.indices - 1) :
         TimesDrawn(replayOut.calls, x) =
           IF Len(replay.obj.styleIndices_) > 0 /\ x >= replay.obj.styleIndices_[1]
             THEN 1 ELSE 0

\* Two features in two style groups, drawn by two calls.
C31_Witness ==
  /\ replayOut.op = "draw" /\ replayOut.skipped = {}
  /\ Len(replay.obj.styleIndices_) = 2
  /\ Len(replayOut.calls) = 2
  /\ replayOut.calls[1].start = 3 /\ replayOut.calls[1].end = 6
  /\ replayOut.calls[2].start = 0 /\ replayOut.calls[2].end = 3


(***************************************************************************)
(* drawReplay with skipped features (SpecReplay)                           *)
(***************************************************************************)
\* The index range of the feature at position p of startIndicesFeature.
FeatureRange(r, p) == r.startIndices[p]..(r.startIndices[p + 1] - 1)

\* The style group the index x lies in (0: before the first group).
GroupOf(r, x) ==
  Cardinality({g \in 1..Len(r.styleIndices_) : r.styleIndices_[g] <= x})

\* C32 as stated: for every non-empty set of skipped features,
\* drawReplaySkipping_ draws no index of a skipped feature and every index
\* of every other feature exactly once, under the colour of its style group,
\* and clears the depth buffer after each drawn range.
C32_SkippingDrawsAllOthers ==
  (replayOut.op = "draw" /\ replayOut.skipped # {}) =>
    LET r == replay.obj
        calls == replayOut.calls
    IN /\ \A k \in 1..Len(calls) : calls[k].cleared /\ calls[k].start < calls[k].end
       /\ \A p \in 1..Len(r.startIndicesFeature) :
            \A x \in FeatureRange(r, p) :
              IF r.startIndicesFeature[p].id \in replayOut.skipped
                THEN TimesDrawn(calls, x) = 0
                ELSE /\ TimesDrawn(calls, x) = 1
                     /\ \A k \in 1..Len(calls) :
                          (calls[k].start <= x /\ x < calls[k].end) =>
                            calls[k].color = r.styles_[GroupOf(r, x)]

\* C32 as the code has it: the same for the features added after the first
\* setFillStrokeStyle call; the indices of features added before it are not
\* drawn, skipped or not.
C32_SkippingDrawsAllStyledOthers ==
  (replayOut.op = "draw" /\ replayOut.skipped # {}) =>
    LET r == replay.obj
        calls == replayOut.calls
    IN /\ \A k \in 1..Len(calls) : calls[k].cleared /\ calls[k].start < calls[k].end
       /\ \A p \in 1..Len(r.startIndicesFeature) :
            \A x \in FeatureRange(r, p) :
              IF r.startIndicesFeature[p].id \in replayOut.skipped \/ GroupOf(r, x) = 0
                THEN TimesDrawn(calls, x) = 0
                ELSE /\ TimesDrawn(calls, x) = 1
                     /\ \A k \in 1..Len(calls) :
                          (calls[k].start <= x /\ x < calls[k].end) =>
                            calls[k].color = r.styles_[GroupOf(r, x)]

\* Two features of one style group, the newer one skipped: one call draws
\* the older one.
C32_Witness ==
  /\ replayOut.op = "draw" /\ replayOut.skipped = {2}
  /\ Len(replay.obj.startIndicesFeature) = 2
  /\ Len(replay.obj.styleIndices_) = 1
  /\ replay.obj.indices = 6
  /\ replayOut.calls = <<DrawElements(replay.obj.styles_[1], 0, 3, TRUE)>>


(***************************************************************************)
(* The fill colours of the style groups (SpecReplay)                       *)
(***************************************************************************)
\* C35: after finish, styles_ and styleIndices_ have the same length and
\* styles_[i] is the fill colour that was in effect when the polygons of
\* group i were added, so drawReplay draws every index under the fill colour
\* its feature was added with.
C35_GroupColourIsFeatureColour ==
  replay.obj.finished =>
    LET r == replay.obj
    IN /\ Len(r.styles_) = Len(r.styleIndices_)
       /\ \A p \in 1..Len(r.startIndicesFeature) :
            \A x \in FeatureRange(r, p) :
              GroupOf(r, x) > 0 =>
                r.styles_[GroupOf(r, x)] = r.startIndicesFeature[p].fill


(***************************************************************************)
(* Specification SpecCache: a READY source with a style whose bands exist, *)
(* asked for its image while its style, draw function and bands change.    *)
(* applyIn.valid records, from the calls made alone, whether an image was  *)
(* returned and no call that is said to invalidate it has happened since,  *)
(* and the checksum the style had when it was returned; applyOut describes *)
(* the last getImageInternal call.                                         *)
(***************************************************************************)
CacheStyles ==
  {DefaultStyle(0), DefaultStyle(1),
   RGB([red |-> DefaultStyle(0), green |-> DefaultStyle(1),
        blue |-> MonochromeSetBandIndex(DefaultStyle(0), Undefined)]),
   Pseudocolor([min |-> {0}, max |-> {10}, band |-> {0},
                startColor |-> Black, endColor |-> White,
                mode |-> INTERPOLATE, breakpoints |-> <<>>])}

\* The band indices a style names.
StyleBands(style) ==
  IF style.kind = "r"
    THEN {b \in {style.red_.band_, style.green_.band_, style.blue_.band_} :
            b # Undefined}
    ELSE {style.band_} \ {Undefined}

\* Every band the style names exists, and it names one.
BandsExist(s, style) ==
  /\ StyleBands(style) # {}
  /\ \A b \in StyleBands(style) : Val(b) < Len(s.bands_)

CacheSources ==
  {[SetStyle(AddBands(CoverageSource([cls |-> "coverage", state |-> READY,
                                      url |-> FALSE, wcsExtent |-> FALSE,
                                      wrapX |-> FALSE,
                                      projection |-> "EPSG:4326"]), bands), style)
      EXCEPT !.loader = "done", !.events = <<>>] :
     bands \in {<<Band(o)>> : o \in BandOptions}
               \cup {<<Band(o), Band(o)>> : o \in BandOptions},
     style \in {DefaultStyle(0)}}

InitCache ==
  /\ source \in CacheSources
  /\ sourceOut = NoOutcome
  /\ applyIn = [kind |-> "cache", valid |-> FALSE, checksum |-> UndefinedStr]
  /\ applyOut = NoApply
  /\ styleA = NoStyle /\ styleB = NoStyle /\ resA = NoResult /\ resB = NoResult
  /\ NoRender
  /\ replay = NoReplay /\ replayOut = NoOutcome
  /\ rasterBand = NoBand

CacheRest == <<styleVars, sourceOut, renderVars, replayVars, rasterBand>>

\* An event other than getImageInternal: the source it leaves and whether
\* it is one of those said to invalidate the cached image.
CacheEvent(src, invalidates) ==
  /\ src.revision_ <= MaxRevision
  /\ source' = src
  /\ applyIn' = [applyIn EXCEPT !.valid = @ /\ ~invalidates]
  /\ applyOut' = NoApply
  /\ UNCHANGED CacheRest

CacheSetStyle ==
  \E style \in CacheStyles :
    /\ BandsExist(source, style)
    /\ CacheEvent(SetStyle(Called, style), TRUE)

CacheSetCoverageDrawFunction ==
  \E f \in DrawFunctions : CacheEvent(SetCoverageDrawFunction(Called, f), TRUE)

\* style.setMin(min) / setMax(max) on the source's style, in place.
CacheStyleSetBound ==
  /\ source.style_.kind \in {"m", "p"}
  /\ \E v \in {{0}, {5}} :
       \E style \in {SetMinOf(source.style_, v), SetMaxOf(source.style_, v)} :
         CacheEvent([Called EXCEPT !.style_ = style], FALSE)

\* band.setNullValue(v) on the band at index i - 1: a change event.
CacheBandSetNullValue ==
  \E i \in 1..Len(source.bands_), v \in NullValues :
    CacheEvent(BandChanged([Called EXCEPT !.bands_[i] = BandSetNullValue(@, v)],
                           i).src,
               {i - 1} \in StyleBands(source.style_))

CacheAddBand ==
  /\ Len(source.bands_) < MaxBands
  /\ \E o \in BandOptions : CacheEvent(AddBand(Called, Band(o)), FALSE)

CacheGetImageInternal ==
  /\ applyOut = NoApply
  /\ \E r \in {GetImageInternal(Called, <<0, 2>>)} :
       /\ source' = r.src
       /\ applyIn' = [applyIn EXCEPT !.valid = TRUE,
                                      !.checksum = GetChecksum(r.src.style_).ret]
       /\ applyOut' = [kind |-> "got",
                       wasValid |-> /\ applyIn.valid
                                    /\ GetChecksum(source.style_).ret = applyIn.checksum,
                       ret |-> r.ret, cached |-> source.image_,
                       rebuilt |-> \/ r.src.renderedRevision_ # source.renderedRevision_
                                   \/ r.src.renderedChecksum_ # source.renderedChecksum_]
       /\ UNCHANGED CacheRest

NextCache ==
  \/ CacheSetStyle
  \/ CacheSetCoverageDrawFunction
  \/ CacheStyleSetBound
  \/ CacheBandSetNullValue
  \/ CacheAddBand
  \/ CacheGetImageInternal

SpecCache == InitCache /\ [][NextCache]_vars

\* C33: in state READY with an intersecting extent, getImageInternal returns
\* the cached image, without building one, as long as no setStyle, no
\* setCoverageDrawFunction, no change of the style's checksum and no change
\* event of a band the style references has occurred since that image was
\* returned (addBand and the change event of another band do not count);
\* after one of those the call builds a new image.
C33_CachedUntilInvalidated ==
  applyOut.kind = "got" =>
    /\ applyOut.ret = source.image_
    /\ source.image_ # NullImage
    /\ IF applyOut.wasValid
         THEN ~applyOut.rebuilt /\ applyOut.ret = applyOut.cached
         ELSE applyOut.rebuilt

\* The image survived an addBand and the change of a band the style does
\* not reference.
C33_Witness ==
  /\ applyOut.kind = "got"
  /\ applyOut.wasValid
  /\ ~applyOut.rebuilt
  /\ source.renderedRevision_ + 2 <= source.revision_
  /\ source.bands_[2].null_ # Null


\* C34: whenever prepareFrame returns true through the frame cache (same
\* resolution and layer revision, extent inside renderedExtent), the
\* renderer's replay group is non-null and is the batch built in the frame
\* that recorded those three values, also after a frame in between that
\* dropped the replay group and returned false.
C34_ReusedFrameHasItsBatch ==
  (lastFrame.called /\ lastFrame.fresh /\ lastFrame.path = "reused"
     /\ lastFrame.result = "true")
  => /\ renderer.replayGroup # NullGroup
     /\ renderer.replayGroup.extent = renderer.renderedExtent
     /\ {renderer.replayGroup.resolution} = renderer.renderedResolution

(***************************************************************************)
(* SpecView: a coverage layer on a READY source with a band, drawn by one  *)
(* of the two renderers for a view whose projection changes between        *)
(* frames, while the layer changes and its style is changed in place.      *)
(***************************************************************************)
ViewProjections == {"EPSG:4326", "EPSG:3857"}

\* Frames of a resting view in either projection.
ViewFrameStates ==
  {[resolution |-> 1, extent |-> e, animating |-> FALSE, interacting |-> FALSE,
    projection |-> p] : e \in FrameExtents, p \in ViewProjections}

InitView ==
  /\ InitRender
  /\ source.state_ = READY
  /\ Len(source.bands_) = 1

ViewPrepareFrame == PrepareFrameOf(ViewFrameStates)

NextView ==
  \/ ViewPrepareFrame
  \/ RenderLayerChanged
  \/ RenderStyleSetMin

SpecView == InitView /\ [][NextView]_vars

\* C36: the spatial index that prepareFrame queries was built by createGrid
\* for the view projection of the frame: after a change of the view
\* projection, with the style checksum and the source revision unchanged,
\* the index is rebuilt before the next query.
C36_IndexIsInViewProjection ==
  (lastFrame.called /\ lastFrame.fresh /\ lastFrame.path = "render"
     /\ lastFrame.result = "true")
  => renderer.replayGroup.flatCoverage[1].projection = lastFrame.projection
\* A prepareFrame call of the WebGL renderer made this step.
WebGLFrame ==
  renderer.cls = "webgl" /\ lastFrame'.called /\ lastFrame'.fresh

\* The group the renderer held before the call is no longer referenced
\* after it: the field is null or holds a group created by the call.
StopsReferencing ==
  /\ renderer.replayGroup # NullGroup
  /\ renderer'.replayGroup = NullGroup \/ lastFrame'.newGroup

\* C37: in the WebGL renderer a prepareFrame call pushes the
\* delete-resources function of the replay group it held exactly when it
\* stops referencing that group, and the group the renderer holds after a
\* call that scheduled a deletion is null or was created by that call, so a
\* group whose deletion is scheduled is never reported or reused.
C37_DroppedGroupIsDeletedOnce ==
  [][WebGLFrame =>
       /\ lastFrame'.deleted <=> StopsReferencing
       /\ (renderer.replayGroup # NullGroup /\ ~lastFrame'.deleted)
            => renderer'.replayGroup = renderer.replayGroup
       /\ lastFrame'.path = "reused" => ~lastFrame'.deleted]_vars

\* A frame dropped the group the renderer held, scheduled its deletion and
\* reported nothing.
C37_Witness ==
  /\ renderer.cls = "webgl"
  /\ lastFrame.called /\ lastFrame.fresh
  /\ lastFrame.deleted
  /\ lastFrame.result = "false"
  /\ renderer.replayGroup = NullGroup
\* The calls of fillMissingValues on the source's style during the last call.
Fills(s) == Len(SelectSeq(s.events, LAMBDA e : e.type = "fill"))

\* A change event was dispatched during the last call while the source was
\* READY.
ChangedWhileReady(s) ==
  \E k \in 1..Len(s.events) : s.events[k] = [type |-> "change", state |-> READY]

\* C38: a coverage source holds at most one pending style-initialisation
\* listener.  setStyle(s) on a source that is not READY registers it; the
\* first change event dispatched in state READY calls fillMissingValues
\* exactly once, on the style current at that time, and removes it; a later
\* setStyle call (setStyle(null) too) before that removes the earlier
\* listener; setStyle in state READY calls fillMissingValues at once and
\* registers nothing.
C38_OneStyleInitListener ==
  [][/\ source'.styleInitListeners = IF source'.styleInitKey_ THEN 1 ELSE 0
     /\ sourceOut'.op = "setStyle" =>
          IF source'.style_ = NullStyle
            THEN ~source'.styleInitKey_ /\ Fills(source') = 0
          ELSE IF source.state_ = READY
            THEN ~source'.styleInitKey_ /\ Fills(source') = 1
          ELSE source'.styleInitKey_ /\ Fills(source') = 0
     /\ sourceOut'.op # "setStyle" =>
          IF source.styleInitKey_ /\ ChangedWhileReady(source')
            THEN /\ ~source'.styleInitKey_
                 /\ Fills(source') = 1
                 /\ source.style_ # NullStyle
            ELSE /\ source'.styleInitKey_ = source.styleInitKey_
                 /\ Fills(source') = 0]_vars

\* The listener of a style set before the source was READY has run: the
\* style's bounds are filled from the band and no listener is left.
C38_Witness ==
  /\ sourceOut.op = "onload"
  /\ source.state_ = READY
  /\ Fills(source) = 1
  /\ ~source.styleInitKey_
  /\ source.style_ # NullStyle
  /\ source.style_.kind = "m"
  /\ source.style_.min_ # Undefined
\* C39: getChecksum returns a string and raises no error for every style
\* the constructors and setters can produce, a Pseudocolor style whose min
\* or max is unset included.
C39_GetChecksumNeverRaises ==
  resA # Throw /\ resB # Throw
\* C40: on a coverage source whose style is null, a change event of one of
\* its bands (Band.setNullValue) is handled without raising an error: the
\* source's revision increases and exactly one changeband event is
\* dispatched.
C40_NullStyleBandChangeHandled ==
  (sourceOut.op = "setNullValue" /\ source.style_ = NullStyle)
  => /\ sourceOut.ret = OkRet
     /\ source.revision_ > sourceOut.revision
     /\ Len(SelectSeq(source.events, LAMBDA e : e.type = "changeband")) = 1
====
